---- MODULE Spec2Model ----
(***************************************************************************)
(* Entity onboarding pipeline of the pine-wilt knowledge graph service:    *)
(* similarity retrieval (Word2VecService), relation inference              *)
(* (KimiService) and the three request handlers discover / expand /        *)
(* commit of main.py, over the MySQL tables knowledge_triples,             *)
(* valid_relations and graph_high_level_nodes.                             *)
(*                                                                         *)
(* Strings are sequences of characters.  A Chinese character is written    *)
(* as its pinyin token (tone digits tell homophones apart), " " is a       *)
(* whitespace character.  So "马尾松" is <<"ma", "wei3", "song">>.          *)
(***************************************************************************)
EXTENDS Integers, Sequences, FiniteSets, TLC

VARIABLES
    knowledge_triples,  \* rows of table knowledge_triples, in insertion order
    valid_relations,    \* rows (relation_name) of table valid_relations
    high_level_nodes,   \* node_name column of table graph_high_level_nodes
    auto_increment,     \* next AUTO_INCREMENT id of knowledge_triples
    client,             \* KimiService.client is set (TRUE) or None (FALSE)
    model,              \* Word2VecService.model is loaded (TRUE) or None (FALSE)
    response,           \* what the last request handler returned or raised
    pc,                 \* per server worker: position inside the commit handler
    local,              \* per server worker: the request it is serving
    reply,              \* per server worker: what its last commit returned
    args,               \* inputs of the library call under study
    ret                 \* its result

vars == <<knowledge_triples, valid_relations, high_level_nodes, auto_increment,
          client, model, response, pc, local, reply, args, ret>>

db == <<knowledge_triples, valid_relations, high_level_nodes>>

--------------------------------------------------------------------------
(* Bounds of the model *)

\* largest number of rows of knowledge_triples
MaxTriples == 6
\* largest topn a discover request asks for
MaxTopn == 2
\* longest allowed-relation list handed to infer_relation directly
MaxRelations == 2

--------------------------------------------------------------------------
(* Words *)

ShiDiSong == <<"shi", "di4", "song">>
TianNiu == <<"tian", "niu">>
GaoWen == <<"gao", "wen">>
MaWeiSong == <<"ma", "wei3", "song">>
HeiSong == <<"hei", "song">>
ChiSong == <<"chi", "song">>
SongShu == <<"song", "shu4">>
SongCaiXianChong == <<"song", "cai", "xian", "chong">>
SongMoTianNiu == <<"song", "mo", "tian", "niu">>
WenDu == <<"wen", "du">>
YiQing == <<"yi4", "qing">>

\* relation labels: 易感, 属于, 传播, 影响, 相关, 无关
YiGan == <<"yi", "gan">>
ShuYu == <<"shu3", "yu">>
ChuanBo == <<"chuan", "bo">>
YingXiang == <<"ying", "xiang3">>
XiangGuan == <<"xiang1", "guan">>
WuGuan == <<"wu2", "guan">>

--------------------------------------------------------------------------
(* Python string and list primitives *)

Min(a, b) == IF a <= b THEN a ELSE b
Max(a, b) == IF a >= b THEN a ELSE b

RECURSIVE LStrip(_)
LStrip(s) == IF s # <<>> /\ Head(s) = " " THEN LStrip(Tail(s)) ELSE s

RECURSIVE RStrip(_)
RStrip(s) ==
    IF s # <<>> /\ s[Len(s)] = " " THEN RStrip(SubSeq(s, 1, Len(s) - 1)) ELSE s

\* a string with whitespace around it
Padded(s) == <<" ">> \o s \o <<" ">>

\* str.strip()
Strip(s) == RStrip(LStrip(s))

\* k in s, for strings
Contains(k, s) ==
    \E i \in 1..(Len(s) - Len(k) + 1) : SubSeq(s, i, i + Len(k) - 1) = k

\* x in l, for lists
InList(x, l) == \E i \in 1..Len(l) : l[i] = x

\* any(k in s for k in keywords)
AnyKeywordIn(keywords, s) == \E i \in 1..Len(keywords) : Contains(keywords[i], s)

\* l[:n], for any integer n
PyPrefix(l, n) ==
    IF n >= 0 THEN SubSeq(l, 1, Min(n, Len(l)))
    ELSE SubSeq(l, 1, Max(0, Len(l) + n))

--------------------------------------------------------------------------
(* ai_service.py: KimiService *)

tree_keywords == << <<"song">>, <<"shu4">>, <<"lin">> >>
insect_keywords == << <<"tian", "niu">>, <<"kun", "chong">>, <<"mei", "jie">> >>
disease_keywords == << <<"xian", "chong">>, <<"bing">>, <<"zheng", "zhuang">> >>
env_keywords == << <<"wen", "du">>, <<"shi", "du">>, <<"qi", "hou">>, <<"huan", "jing">> >>

\* faulty variant of _mock_relation: the class's preferred label is returned
\* without looking it up in the allowed list
mock_relation_unchecked(entity_a, entity_c, allowed) ==
    IF allowed = <<>> THEN XiangGuan
    ELSE IF AnyKeywordIn(tree_keywords, entity_a) THEN
        IF AnyKeywordIn(disease_keywords, entity_c) THEN YiGan
        ELSE IF AnyKeywordIn(tree_keywords, entity_c) THEN ShuYu
        ELSE allowed[1]
    ELSE IF AnyKeywordIn(insect_keywords, entity_a) THEN ChuanBo
    ELSE IF AnyKeywordIn(env_keywords, entity_a) THEN YingXiang
    ELSE allowed[1]

\* KimiService._mock_relation
mock_relation(entity_a, entity_c, allowed) ==
    IF allowed = <<>> THEN XiangGuan
    ELSE IF AnyKeywordIn(tree_keywords, entity_a) THEN
        IF InList(YiGan, allowed) /\ AnyKeywordIn(disease_keywords, entity_c)
        THEN YiGan
        ELSE IF InList(ShuYu, allowed) /\ AnyKeywordIn(tree_keywords, entity_c)
        THEN ShuYu
        ELSE allowed[1]
    ELSE IF AnyKeywordIn(insect_keywords, entity_a) THEN
        IF InList(ChuanBo, allowed) THEN ChuanBo ELSE allowed[1]
    ELSE IF AnyKeywordIn(env_keywords, entity_a) THEN
        IF InList(YingXiang, allowed) THEN YingXiang ELSE allowed[1]
    ELSE allowed[1]

\* What one chat.completions.create call does: it raises, or it answers with
\* a text (response.choices[0].message.content).
KimiRaises == [kind |-> "raise", content |-> <<>>]
KimiSays(text) == [kind |-> "text", content |-> text]
KimiOutcomes ==
    { KimiRaises, KimiSays(ChuanBo), KimiSays(Padded(ShuYu)), KimiSays(WuGuan),
      KimiSays(<<>>) }

\* faulty variant: the backend's answer is returned without the vocabulary test
infer_relation_trusting(self_client, entity_a, entity_c, allowed, outcome) ==
    IF ~self_client \/ allowed = <<>> \/ outcome.kind = "raise"
    THEN mock_relation(entity_a, entity_c, allowed)
    ELSE Strip(outcome.content)

\* KimiService.infer_relation; self_client is self.client, outcome is what
\* the backend does if it is called
infer_relation(self_client, entity_a, entity_c, allowed, outcome) ==
    IF ~self_client \/ allowed = <<>>
    THEN mock_relation(entity_a, entity_c, allowed)
    ELSE IF outcome.kind = "raise"
    THEN mock_relation(entity_a, entity_c, allowed)
    ELSE LET relation == Strip(outcome.content) IN
         IF InList(relation, allowed) THEN relation
         ELSE mock_relation(entity_a, entity_c, allowed)

--------------------------------------------------------------------------
(* ai_service.py: Word2VecService *)

Sim(word, score) == [word |-> word, score |-> score]

\* mock_similar_groups; scores are in hundredths
mock_similar_groups(word) ==
    CASE word = ShiDiSong ->
          << Sim(<<"ma", "wei3", "song">>, 89),
             Sim(<<"hei", "song">>, 85),
             Sim(<<"chi", "song">>, 82),
             Sim(<<"hua", "shan", "song">>, 79),
             Sim(<<"luo", "ye", "song">>, 76),
             Sim(<<"hong", "song">>, 74),
             Sim(<<"yun", "sha">>, 71),
             Sim(<<"leng", "sha">>, 68),
             Sim(<<"xue", "song">>, 65),
             Sim(<<"song", "shu4">>, 62) >>
          \* 马尾松 89, 黑松 85, 赤松 82, 华山松 79, 落叶松 76, 红松 74, 云杉 71, 冷杉 68, 雪松 65, 松树 62
      [] word = TianNiu ->
          << Sim(<<"song", "mo", "tian", "niu">>, 92),
             Sim(<<"mei", "jie", "kun", "chong">>, 87),
             Sim(<<"chuan", "bo", "mei", "jie">>, 84),
             Sim(<<"kun", "chong">>, 79),
             Sim(<<"hai", "chong">>, 76),
             Sim(<<"chong", "mei">>, 73),
             Sim(<<"tian", "di2">>, 70),
             Sim(<<"ji", "zhu">>, 67),
             Sim(<<"zai", "ti">>, 64),
             Sim(<<"zhong", "jian1", "su", "zhu">>, 61) >>
          \* 松墨天牛 92, 媒介昆虫 87, 传播媒介 84, 昆虫 79, 害虫 76, 虫媒 73, 天敌 70, 寄主 67, 载体 64, 中间宿主 61
      [] word = <<"xian", "chong">> ->
          << Sim(<<"song", "cai", "xian", "chong">>, 95),
             Sim(<<"bing", "yuan", "ti">>, 90),
             Sim(<<"bing", "yuan">>, 87),
             Sim(<<"ji", "sheng", "chong">>, 83),
             Sim(<<"wei1", "sheng", "wu">>, 78),
             Sim(<<"zhi4", "bing", "jun">>, 75),
             Sim(<<"bing", "jun">>, 72),
             Sim(<<"chong", "hai">>, 68),
             Sim(<<"bing", "hai">>, 65),
             Sim(<<"bing", "yuan", "wu">>, 62) >>
          \* 松材线虫 95, 病原体 90, 病原 87, 寄生虫 83, 微生物 78, 致病菌 75, 病菌 72, 虫害 68, 病害 65, 病原物 62
      [] word = GaoWen ->
          << Sim(<<"wen", "du">>, 88),
             Sim(<<"qi", "hou">>, 85),
             Sim(<<"huan", "jing", "wen", "du">>, 82),
             Sim(<<"re", "liang">>, 78),
             Sim(<<"qi", "wen">>, 75),
             Sim(<<"shi", "du">>, 72),
             Sim(<<"di1", "wen">>, 69),
             Sim(<<"wen", "cha">>, 66),
             Sim(<<"huan", "jing", "tiao", "jian4">>, 63),
             Sim(<<"qi", "hou", "tiao", "jian4">>, 60) >>
          \* 温度 88, 气候 85, 环境温度 82, 热量 78, 气温 75, 湿度 72, 低温 69, 温差 66, 环境条件 63, 气候条件 60
      [] OTHER -> <<>>

default_similar ==
          << Sim(<<"song", "shu4">>, 75),
             Sim(<<"ma", "wei3", "song">>, 72),
             Sim(<<"song", "cai", "xian", "chong">>, 70),
             Sim(<<"song", "mo", "tian", "niu">>, 67),
             Sim(<<"gan", "ran">>, 64),
             Sim(<<"chuan", "bo">>, 61),
             Sim(<<"fang", "zhi">>, 58),
             Sim(<<"bing", "hai">>, 55),
             Sim(<<"lin", "mu">>, 52),
             Sim(<<"yi4", "qing">>, 50) >>
          \* 松树 75, 马尾松 72, 松材线虫 70, 松墨天牛 67, 感染 64, 传播 61, 防治 58, 病害 55, 林木 52, 疫情 50

\* faulty variant: the static list is returned whole, whatever topn is
mock_similar_words_uncut(word, topn) ==
    IF mock_similar_groups(word) # <<>>
    THEN mock_similar_groups(word)
    ELSE default_similar

\* Word2VecService._mock_similar_words_topn
mock_similar_words_topn(word, topn) ==
    IF mock_similar_groups(word) # <<>>
    THEN PyPrefix(mock_similar_groups(word), topn)
    ELSE PyPrefix(default_similar, topn)

\* What one KeyedVectors.most_similar call does: it raises KeyError (unknown
\* word), raises something else, or answers with the head of its ranking.
W2VKeyError == [kind |-> "KeyError", ranked |-> <<>>]
W2VException == [kind |-> "Exception", ranked |-> <<>>]
W2VRanks(ranked) == [kind |-> "ok", ranked |-> ranked]
W2VLookups ==
    { W2VKeyError, W2VRanks(<<>>),
      W2VRanks(<< Sim(HeiSong, 91), Sim(MaWeiSong, 80), Sim(ChiSong, 77),
                  Sim(YiQing, 40) >>) }

\* gensim's most_similar(word, topn=topn) on a ranking
most_similar(ranked, topn) ==
    IF topn < 1 THEN <<>> ELSE SubSeq(ranked, 1, Min(topn, Len(ranked)))

\* faulty variant: a failed lookup answers with the empty list
find_most_similar_topn_or_nothing(self_model, word, topn, lookup) ==
    IF self_model
    THEN IF lookup.kind = "ok" THEN most_similar(lookup.ranked, topn) ELSE <<>>
    ELSE mock_similar_words_topn(word, topn)

\* Word2VecService.find_most_similar_topn; self_model is "self.model is not
\* None", lookup is what the embedding does if it is asked
find_most_similar_topn(self_model, word, topn, lookup) ==
    IF self_model /\ lookup.kind = "ok"
    THEN most_similar(lookup.ranked, topn)
    ELSE mock_similar_words_topn(word, topn)

--------------------------------------------------------------------------
(* main.py: tables and queries *)

Row(id, head, relation, tail) ==
    [id |-> id, head_entity |-> head, relation |-> relation, tail_entity |-> tail]

\* faulty variant: the WHERE clause looks at tail_entity only
CountAsTail(rows, n) ==
    Cardinality({ i \in 1..Len(rows) : rows[i].tail_entity = n })

\* SELECT COUNT(*) FROM knowledge_triples WHERE head_entity = n OR tail_entity = n
CountTouching(rows, n) ==
    Cardinality({ i \in 1..Len(rows) :
                    rows[i].head_entity = n \/ rows[i].tail_entity = n })

\* faulty variant: the query without DISTINCT
KeepDuplicates(l) == l

RECURSIVE Distinct(_)
Distinct(l) ==
    IF l = <<>> THEN <<>>
    ELSE LET front == Distinct(SubSeq(l, 1, Len(l) - 1))
             last == l[Len(l)]
         IN IF InList(last, front) THEN front ELSE Append(front, last)

\* SELECT DISTINCT CASE WHEN head_entity = b THEN tail_entity ELSE head_entity END
\* FROM knowledge_triples WHERE head_entity = b OR tail_entity = b
RelatedEntities(rows, b) ==
    LET Touches(r) == r.head_entity = b \/ r.tail_entity = b
        hit == SelectSeq(rows, Touches)
    IN Distinct([ i \in 1..Len(hit) |->
                    IF hit[i].head_entity = b THEN hit[i].tail_entity
                    ELSE hit[i].head_entity ])

\* INSERT INTO knowledge_triples (head_entity, relation, tail_entity) VALUES ...
InsertTriple(rows, id, triple) ==
    Append(rows, Row(id, triple.head_entity, triple.relation, triple.tail_entity))

--------------------------------------------------------------------------
(* main.py: the three onboarding handlers *)

\* raise HTTPException(status_code, detail)
Raise(status, detail) == [status |-> status, detail |-> detail, body |-> <<>>]
\* return {...}
Return(body) == [status |-> 200, detail |-> "ok", body |-> body]

\* the partition loop of get_similar_entities
EntityData(rows, similar_words) ==
    [ i \in 1..Len(similar_words) |->
        [ entity |-> similar_words[i].word,
          similarity |-> similar_words[i].score,
          in_graph |-> CountTouching(rows, similar_words[i].word) > 0 ] ]

\* faulty variant: the list is cut to topn in ranking order, in-graph or not
PreferInGraphUnsorted(entities, topn) == PyPrefix(entities, topn)

\* result = in_graph_entities[:topn], topped up with out_graph_entities
PreferInGraph(entities, topn) ==
    LET InGraph(e) == e.in_graph
        OutGraph(e) == ~e.in_graph
        in_graph_entities == SelectSeq(entities, InGraph)
        out_graph_entities == SelectSeq(entities, OutGraph)
        result == PyPrefix(in_graph_entities, topn)
    IN IF Len(result) < topn
       THEN result \o PyPrefix(out_graph_entities, topn - Len(result))
       ELSE result

\* GET /api/node/similar/{entity_name}
get_similar_entities(rows, self_model, raw_name, topn, lookup) ==
    LET entity_name == Strip(raw_name) IN
    IF entity_name = <<>> THEN Raise(400, "empty_name")
    ELSE IF CountTouching(rows, entity_name) > 0 THEN Raise(400, "already_exists")
    ELSE
      LET similar_words ==
              find_most_similar_topn(self_model, entity_name, topn * 3, lookup)
          entities == EntityData(rows, similar_words)
          result == PreferInGraph(entities, topn)
      IN IF similar_words = <<>> THEN Raise(404, "no_similar")
         ELSE IF result = <<>> THEN Raise(404, "no_similar")
         ELSE Return([ input |-> entity_name, similar_entities |-> result ])

\* the candidate loop of generate_candidate_triples; outs[i] is what the
\* backend does on the i-th infer_relation call
CandidateTriples(self_client, entity_a, related_entities, allowed, outs) ==
    [ i \in 1..Len(related_entities) |->
        [ head_entity |-> entity_a,
          relation |-> infer_relation(self_client, entity_a,
                                      related_entities[i], allowed, outs[i]),
          tail_entity |-> related_entities[i] ] ]

\* faulty variant: valid_relations is read and tested before the anchor's
\* related entities
generate_candidate_triples_config_first(rows, allowed, self_client, data, outs) ==
    LET entity_a == Strip(data.entity_name)
        entity_b == Strip(data.similar_entity)
        related_entities == RelatedEntities(rows, entity_b)
    IN IF entity_a = <<>> \/ entity_b = <<>> THEN Raise(400, "empty_name")
       ELSE IF CountTouching(rows, entity_a) > 0 THEN Raise(400, "already_exists")
       ELSE IF allowed = <<>> THEN Raise(500, "no_valid_relations")
       ELSE IF related_entities = <<>> THEN Raise(404, "anchor_not_in_graph")
       ELSE Return([ input_entity |-> entity_a,
                     similar_entity |-> entity_b,
                     candidate_triples |->
                         CandidateTriples(self_client, entity_a, related_entities,
                                          allowed, outs) ])

\* POST /api/node/generate-triples
generate_candidate_triples(rows, allowed, self_client, data, outs) ==
    LET entity_a == Strip(data.entity_name)
        entity_b == Strip(data.similar_entity)
        related_entities == RelatedEntities(rows, entity_b)
    IN IF entity_a = <<>> \/ entity_b = <<>> THEN Raise(400, "empty_name")
       ELSE IF CountTouching(rows, entity_a) > 0 THEN Raise(400, "already_exists")
       ELSE IF related_entities = <<>> THEN Raise(404, "anchor_not_in_graph")
       ELSE IF allowed = <<>> THEN Raise(500, "no_valid_relations")
       ELSE Return([ input_entity |-> entity_a,
                     similar_entity |-> entity_b,
                     candidate_triples |->
                         CandidateTriples(self_client, entity_a, related_entities,
                                          allowed, outs) ])

TripleKeys == {"head_entity", "relation", "tail_entity"}

\* the parameter check of add_node_with_selected_triple ("not entity_a or not triple")
CommitParamsMissing(data) ==
    Strip(data.entity_name) = <<>> \/ DOMAIN data.selected_triple = {}

\* the existence check of add_node_with_selected_triple
CommitSeesEntity(rows, data) == CountTouching(rows, Strip(data.entity_name)) > 0

\* the insert of add_node_with_selected_triple: the new table, the next id
\* and the answer; a selected_triple without one of the three keys raises
\* KeyError, which the handler turns into a 500
CommitInsertStep(rows, next_id, data) ==
    LET triple == data.selected_triple IN
    IF ~(TripleKeys \subseteq DOMAIN triple)
    THEN [ rows |-> rows, next_id |-> next_id,
           answer |-> Raise(500, "internal_error") ]
    ELSE [ rows |-> InsertTriple(rows, next_id, triple),
           next_id |-> next_id + 1,
           answer |-> Return([ triple |-> Row(next_id, triple.head_entity,
                                              triple.relation, triple.tail_entity),
                               input |-> Strip(data.entity_name),
                               similar_entity |-> Strip(data.similar_entity) ]) ]

\* faulty variant: the existence check is left out
add_node_without_recheck(rows, next_id, data) ==
    IF CommitParamsMissing(data)
    THEN [ rows |-> rows, next_id |-> next_id,
           answer |-> Raise(400, "incomplete_params") ]
    ELSE CommitInsertStep(rows, next_id, data)

\* faulty variant: the row is inserted and committed before the existence
\* check, which then still refuses the request
add_node_insert_first(rows, next_id, data) ==
    IF CommitParamsMissing(data)
    THEN [ rows |-> rows, next_id |-> next_id,
           answer |-> Raise(400, "incomplete_params") ]
    ELSE IF CommitSeesEntity(rows, data)
    THEN [ rows |-> CommitInsertStep(rows, next_id, data).rows,
           next_id |-> CommitInsertStep(rows, next_id, data).next_id,
           answer |-> Raise(400, "already_exists") ]
    ELSE CommitInsertStep(rows, next_id, data)

\* POST /api/node/add, run start to end
add_node_with_selected_triple(rows, next_id, data) ==
    IF CommitParamsMissing(data)
    THEN [ rows |-> rows, next_id |-> next_id,
           answer |-> Raise(400, "incomplete_params") ]
    ELSE IF CommitSeesEntity(rows, data)
    THEN [ rows |-> rows, next_id |-> next_id,
           answer |-> Raise(400, "already_exists") ]
    ELSE CommitInsertStep(rows, next_id, data)

--------------------------------------------------------------------------
(* Stored data and request inputs the model draws from *)

GanRan == <<"gan", "ran">>
JiSheng == <<"ji", "sheng">>

\* knowledge_triples as loaded before the service starts
Graph1 ==
    << Row(1, MaWeiSong, ShuYu, SongShu),
       Row(2, SongCaiXianChong, GanRan, MaWeiSong),
       Row(3, SongMoTianNiu, ChuanBo, SongCaiXianChong),
       Row(4, SongCaiXianChong, JiSheng, SongMoTianNiu) >>
Graph2 ==
    << Row(1, ChiSong, ShuYu, SongShu),
       Row(2, SongShu, XiangGuan, ChiSong),
       Row(3, SongShu, XiangGuan, SongShu),
       Row(4, SongMoTianNiu, ChuanBo, SongCaiXianChong) >>
Graphs == { Graph1, Graph2 }

\* valid_relations as loaded before the service starts (the table is created
\* empty by init_database)
RelationTables == { <<>>, << ShuYu, ChuanBo, YiGan >> }

DiscoverNames == { <<>>, Padded(ShiDiSong), MaWeiSong, YiQing }
TopnInputs == (-1)..MaxTopn

ExpandRequests ==
    [ entity_name : { <<>>, Padded(ShiDiSong), MaWeiSong },
      similar_entity : { <<" ">>, MaWeiSong, Padded(SongShu), HeiSong } ]

Triple(head, relation, tail) ==
    [head_entity |-> head, relation |-> relation, tail_entity |-> tail]
EmptyDict == [ k \in {} |-> <<>> ]
SelectedTriples ==
    { EmptyDict,
      [head_entity |-> ShiDiSong],
      Triple(ShiDiSong, ShuYu, MaWeiSong),
      Triple(ShiDiSong, YiGan, SongCaiXianChong),
      Triple(TianNiu, WuGuan, HeiSong) }
CommitRequests ==
    [ entity_name : { <<>>, Padded(ShiDiSong), TianNiu, MaWeiSong },
      similar_entity : { MaWeiSong },
      selected_triple : SelectedTriples ]

Workers == { "w1", "w2" }

NoResponse ==
    [ op |-> "none", request |-> <<>>, backend |-> <<>>,
      status |-> 0, detail |-> "none", body |-> <<>> ]
Answered(op, request, backend, answer) ==
    [ op |-> op, request |-> request, backend |-> backend,
      status |-> answer.status, detail |-> answer.detail, body |-> answer.body ]

NoCall == [ op |-> "none" ]

--------------------------------------------------------------------------
(* The service handling one request at a time *)

InitStore ==
    /\ knowledge_triples \in Graphs
    /\ auto_increment = Len(knowledge_triples) + 1
    /\ valid_relations \in RelationTables
    /\ high_level_nodes = {}

InitWorkers ==
    /\ pc = [ w \in Workers |-> "idle" ]
    /\ local = [ w \in Workers |-> <<>> ]
    /\ reply = [ w \in Workers |-> NoResponse ]

Init ==
    /\ InitStore
    /\ client \in BOOLEAN
    /\ model \in BOOLEAN
    /\ response = NoResponse
    /\ InitWorkers
    /\ args = NoCall
    /\ ret = NoCall

\* phase 1: get_similar_entities
Discover(raw_name, topn, lookup) ==
    /\ response' = Answered("discover",
                            [ entity_name |-> raw_name, topn |-> topn ], lookup,
                            get_similar_entities(knowledge_triples, model,
                                                 raw_name, topn, lookup))
    /\ UNCHANGED <<db, auto_increment, client, model, pc, local, reply, args, ret>>

\* phase 2: generate_candidate_triples
Expand(data, outs) ==
    /\ response' = Answered("expand", data, <<>>,
                            generate_candidate_triples(knowledge_triples,
                                                       valid_relations, client,
                                                       data, outs))
    /\ UNCHANGED <<db, auto_increment, client, model, pc, local, reply, args, ret>>

\* phase 3: add_node_with_selected_triple
Commit(data) ==
    LET done == add_node_with_selected_triple(knowledge_triples, auto_increment, data)
    IN /\ Len(done.rows) <= MaxTriples
       /\ knowledge_triples' = done.rows
       /\ auto_increment' = done.next_id
       /\ response' = Answered("commit", data, <<>>, done.answer)
       /\ UNCHANGED <<valid_relations, high_level_nodes, client, model,
                      pc, local, reply, args, ret>>

\* the embedding is asked only when a model is loaded
LookupsNow == IF model THEN W2VLookups ELSE { W2VKeyError }
\* the backend is called only when a client exists
ExpandOutcomesNow ==
    IF client THEN { KimiRaises, KimiSays(Padded(ShuYu)), KimiSays(WuGuan) }
    ELSE { KimiRaises }

Next ==
    \/ \E raw_name \in DiscoverNames, topn \in TopnInputs, lookup \in LookupsNow :
           Discover(raw_name, topn, lookup)
    \/ \E data \in ExpandRequests :
           \E outs \in [ 1..Len(RelatedEntities(knowledge_triples,
                                                Strip(data.similar_entity)))
                         -> ExpandOutcomesNow ] :
               Expand(data, outs)
    \/ \E data \in CommitRequests : Commit(data)

Spec == Init /\ [][Next]_vars

--------------------------------------------------------------------------
(* KimiService.infer_relation called on its own *)

InferNames == { ShiDiSong, TianNiu, WenDu, SongCaiXianChong, YiQing }
RelationUniverse == { YiGan, ShuYu, ChuanBo, YingXiang }
RelationLists == UNION { [ 1..n -> RelationUniverse ] : n \in 0..MaxRelations }

InitInfer ==
    /\ knowledge_triples = Graph1
    /\ auto_increment = Len(Graph1) + 1
    /\ valid_relations = <<>>
    /\ high_level_nodes = {}
    /\ client \in BOOLEAN
    /\ model = FALSE
    /\ response = NoResponse
    /\ InitWorkers
    /\ args \in [ op : { "infer_relation" }, entity_a : InferNames,
                  entity_c : InferNames, valid_relations : RelationLists ]
    /\ ret = NoCall

InferRelation(outcome) ==
    /\ args.op = "infer_relation"
    /\ ret' = [ op |-> "infer_relation", outcome |-> outcome,
                relation |-> infer_relation(client, args.entity_a, args.entity_c,
                                            args.valid_relations, outcome) ]
    /\ UNCHANGED <<db, auto_increment, client, model, response, pc, local, reply, args>>

NextInfer ==
    \E outcome \in (IF client THEN KimiOutcomes ELSE { KimiRaises }) :
        InferRelation(outcome)

SpecInfer == InitInfer /\ [][NextInfer]_vars

--------------------------------------------------------------------------
(* Two server workers serving POST /api/node/add against the same database: *)
(* each runs the handler's statements in order on a connection of its own,  *)
(* and statements of different workers interleave.                          *)

ConcurrentRequests ==
    { d \in CommitRequests :
        /\ d.entity_name \in { Padded(ShiDiSong), TianNiu }
        /\ d.selected_triple \in { EmptyDict,
                                   Triple(ShiDiSong, ShuYu, MaWeiSong),
                                   Triple(ShiDiSong, YiGan, SongCaiXianChong) } }

InitConcurrent ==
    /\ knowledge_triples = Graph1
    /\ auto_increment = Len(Graph1) + 1
    /\ valid_relations = << ShuYu, ChuanBo, YiGan >>
    /\ high_level_nodes = {}
    /\ client = FALSE
    /\ model = FALSE
    /\ response = NoResponse
    /\ InitWorkers
    /\ args = NoCall
    /\ ret = NoCall

\* the request arrives; the parameter check
CommitBegin(w, data) ==
    /\ pc[w] = "idle"
    /\ IF CommitParamsMissing(data)
       THEN /\ reply' = [ reply EXCEPT ![w] =
                            Answered("commit", data, <<>>,
                                     Raise(400, "incomplete_params")) ]
            /\ UNCHANGED <<pc, local>>
       ELSE /\ pc' = [ pc EXCEPT ![w] = "select" ]
            /\ local' = [ local EXCEPT ![w] = data ]
            /\ UNCHANGED reply
    /\ UNCHANGED <<db, auto_increment, client, model, response, args, ret>>

\* SELECT COUNT(*) ... and the test on its result
CommitSelect(w) ==
    /\ pc[w] = "select"
    /\ IF CommitSeesEntity(knowledge_triples, local[w])
       THEN /\ reply' = [ reply EXCEPT ![w] =
                            Answered("commit", local[w], <<>>,
                                     Raise(400, "already_exists")) ]
            /\ pc' = [ pc EXCEPT ![w] = "idle" ]
            /\ local' = [ local EXCEPT ![w] = <<>> ]
       ELSE /\ pc' = [ pc EXCEPT ![w] = "insert" ]
            /\ UNCHANGED <<local, reply>>
    /\ UNCHANGED <<db, auto_increment, client, model, response, args, ret>>

\* INSERT INTO knowledge_triples ... ; conn.commit(); return
CommitInsert(w) ==
    LET done == CommitInsertStep(knowledge_triples, auto_increment, local[w])
    IN /\ pc[w] = "insert"
       /\ Len(done.rows) <= MaxTriples
       /\ knowledge_triples' = done.rows
       /\ auto_increment' = done.next_id
       /\ reply' = [ reply EXCEPT ![w] =
                       Answered("commit", local[w], <<>>, done.answer) ]
       /\ pc' = [ pc EXCEPT ![w] = "idle" ]
       /\ local' = [ local EXCEPT ![w] = <<>> ]
       /\ UNCHANGED <<valid_relations, high_level_nodes, client, model,
                      response, args, ret>>

NextConcurrent ==
    \E w \in Workers :
        \/ \E data \in ConcurrentRequests : CommitBegin(w, data)
        \/ CommitSelect(w)
        \/ CommitInsert(w)

SpecConcurrent == InitConcurrent /\ [][NextConcurrent]_vars

--------------------------------------------------------------------------
(* Vocabulary of the properties *)

\* n appears as head or tail of at least one stored triple
NodeExists(n) ==
    \E i \in DOMAIN knowledge_triples :
        knowledge_triples[i].head_entity = n \/ knowledge_triples[i].tail_entity = n

\* the nodes that share a stored triple with b, in either direction
Neighbors(b) ==
    { n \in { knowledge_triples[i].head_entity : i \in DOMAIN knowledge_triples }
            \cup { knowledge_triples[i].tail_entity : i \in DOMAIN knowledge_triples } :
        \E i \in DOMAIN knowledge_triples :
            \/ knowledge_triples[i].head_entity = b /\ knowledge_triples[i].tail_entity = n
            \/ knowledge_triples[i].tail_entity = b /\ knowledge_triples[i].head_entity = n }

\* the outcomes of a handler
IsOk(r) == r.status = 200
IsConflict(r) == r.status = 400 /\ r.detail = "already_exists"
IsNotFound(r) == r.status = 404
IsConfigurationError(r) == r.status = 500 /\ r.detail = "no_valid_relations"

\* the trimmed entity name of the last request
Onboarded == Strip(response.request.entity_name)
Anchor == Strip(response.request.similar_entity)

--------------------------------------------------------------------------
(* Properties *)

\* C1: for every pair of entity names and every non-empty allowed list R,
\* infer_relation returns an element of R, whether there is no client, the
\* backend raises, or it answers with a label outside or inside R.
C1_InferRelationInVocabulary ==
    (ret.op = "infer_relation" /\ args.valid_relations # <<>>)
        => InList(ret.relation, args.valid_relations)

\* C1 witness: a client exists, the backend answers with a label outside R,
\* and the rule's preferred label for a tree against a pathogen (易感) is not
\* in R either.
C1_Witness ==
    /\ ret.op = "infer_relation"
    /\ client
    /\ ret.outcome = KimiSays(WuGuan)
    /\ args.entity_a = ShiDiSong
    /\ args.entity_c = SongCaiXianChong
    /\ args.valid_relations = << ChuanBo, YingXiang >>
    /\ ret.relation = ChuanBo

\* C2: when two onboarding workflows commit the same absent entity A
\* concurrently, at most one commit succeeds; the other gets Conflict.
C2_AtMostOneCommitWins ==
    \A w1, w2 \in Workers :
        ( /\ w1 # w2
          /\ reply[w1].op = "commit" /\ IsOk(reply[w1])
          /\ reply[w2].op = "commit" /\ IsOk(reply[w2])
          /\ reply[w1].body.input = reply[w2].body.input )
        => reply[w1].body.triple.head_entity # reply[w2].body.triple.head_entity
           \/ reply[w1].body.triple.head_entity # reply[w1].body.input

\* C3: for a non-empty trimmed name A, discover fails with Conflict exactly
\* when A is the head or tail of a stored triple.
C3_DiscoverConflictIffExists ==
    (response.op = "discover" /\ Onboarded # <<>>)
        => (IsConflict(response) <=> NodeExists(Onboarded))

\* C3 witness: a discover refused for an entity that is stored only as the
\* head of a triple added by an earlier commit.
C3_Witness ==
    /\ response.op = "discover"
    /\ IsConflict(response)
    /\ Onboarded = ShiDiSong
    /\ Len(knowledge_triples) > Len(Graph1)

\* C4: for an absent entity A, an anchor B with at least one edge and a
\* non-empty valid_relations, expand succeeds with exactly one candidate per
\* distinct neighbour of B, each with a relation from valid_relations.
C4_ExpandOnePerNeighbor ==
    ( /\ response.op = "expand"
      /\ Onboarded # <<>> /\ ~NodeExists(Onboarded)
      /\ Neighbors(Anchor) # {}
      /\ valid_relations # <<>> )
    => /\ IsOk(response)
       /\ LET candidates == response.body.candidate_triples IN
          /\ Len(candidates) = Cardinality(Neighbors(Anchor))
          /\ { candidates[i].tail_entity : i \in DOMAIN candidates } = Neighbors(Anchor)
          /\ \A i \in DOMAIN candidates :
                InList(candidates[i].relation, valid_relations)

\* C4 witness: an expand on an anchor that has more stored triples than
\* neighbours (a neighbour linked in both directions, and a self loop).
C4_Witness ==
    /\ response.op = "expand"
    /\ IsOk(response)
    /\ Cardinality(Neighbors(Anchor)) >= 2
    /\ CountTouching(knowledge_triples, Anchor) > Cardinality(Neighbors(Anchor))

\* C5: every candidate produced by expand(A, B) has head A, and every triple
\* persisted by commit for entity_name A has head_entity A.
C5_HeadIsOnboardedEntity ==
    /\ (response.op = "expand" /\ IsOk(response))
         => \A i \in DOMAIN response.body.candidate_triples :
               response.body.candidate_triples[i].head_entity = Onboarded
    /\ (response.op = "commit" /\ IsOk(response))
         => knowledge_triples[Len(knowledge_triples)].head_entity = Onboarded

\* C6: after a successful commit of a candidate triple (A, r, C), the stored
\* triples that touch A contain (A, r, C) exactly once.
C6_CommitRoundTrip ==
    ( /\ response.op = "commit"
      /\ IsOk(response)
      /\ response.request.selected_triple.head_entity = Onboarded )
    => LET t == response.request.selected_triple IN
       Cardinality({ i \in DOMAIN knowledge_triples :
                       /\ knowledge_triples[i].head_entity = Onboarded
                          \/ knowledge_triples[i].tail_entity = Onboarded
                       /\ knowledge_triples[i].head_entity = t.head_entity
                       /\ knowledge_triples[i].relation = t.relation
                       /\ knowledge_triples[i].tail_entity = t.tail_entity }) = 1

\* C6 witness: a candidate for 湿地松 committed after another commit.
C6_Witness ==
    /\ response.op = "commit"
    /\ IsOk(response)
    /\ response.request.selected_triple.head_entity = Onboarded
    /\ Len(knowledge_triples) = Len(Graph1) + 2

\* C7: in a sequential run, once a commit for entity A has succeeded, the
\* later discover, expand and commit calls for A fail with Conflict.  The
\* store only grows here, so the call right after the commit decides it.
C7_CommitOnceThenConflict ==
    [][ ( /\ response.op = "commit" /\ IsOk(response)
          /\ response'.op \in { "discover", "expand", "commit" }
          /\ Strip(response'.request.entity_name) = Onboarded )
        => IsConflict(response') ]_vars

\* C8: for an absent entity A and an anchor name B, expand fails NotFound
\* exactly when B has no stored triple, fails ConfigurationError when B has
\* edges and valid_relations is empty, and returns no candidate either way.
C8_ExpandErrors ==
    ( /\ response.op = "expand"
      /\ Onboarded # <<>> /\ ~NodeExists(Onboarded)
      /\ Anchor # <<>> )
    => /\ IsNotFound(response) <=> ~NodeExists(Anchor)
       /\ (NodeExists(Anchor) /\ valid_relations = <<>>)
             => IsConfigurationError(response)
       /\ (IsNotFound(response) \/ IsConfigurationError(response))
             => response.body = <<>>

\* C8 witness: an anchor with edges, refused because valid_relations is empty.
C8_Witness ==
    /\ response.op = "expand"
    /\ IsConfigurationError(response)
    /\ NodeExists(Anchor)
    /\ ~NodeExists(Onboarded)

\* C9: for an absent entity A and k >= 1, discover returns at most k results
\* taken from findTopN(A, 3k), the in-graph ones before any out-of-graph one,
\* and an out-of-graph one only when fewer than k in-graph ones exist.
C9_DiscoverPrefersInGraph ==
    ( /\ response.op = "discover"
      /\ Onboarded # <<>> /\ ~NodeExists(Onboarded)
      /\ response.request.topn >= 1 )
    => LET k == response.request.topn
           found == find_most_similar_topn(model, Onboarded, 3 * k, response.backend)
           in_graph == { j \in DOMAIN found : NodeExists(found[j].word) }
       IN IF found = <<>> THEN IsNotFound(response)
          ELSE /\ IsOk(response)
               /\ LET result == response.body.similar_entities IN
                  /\ Len(result) >= 1 /\ Len(result) <= k
                  /\ \A i \in DOMAIN result :
                        /\ \E j \in DOMAIN found :
                              /\ found[j].word = result[i].entity
                              /\ found[j].score = result[i].similarity
                        /\ result[i].in_graph <=> NodeExists(result[i].entity)
                  /\ \A i, j \in DOMAIN result :
                        (i < j /\ result[j].in_graph) => result[i].in_graph
                  /\ (\E i \in DOMAIN result : ~result[i].in_graph)
                        => Cardinality(in_graph) < k

\* C9 witness: the ranking puts out-of-graph words before an in-graph one,
\* and the answer holds both kinds.
C9_Witness ==
    /\ response.op = "discover"
    /\ IsOk(response)
    /\ response.request.topn >= 2
    /\ LET result == response.body.similar_entities IN
       /\ result[1].in_graph
       /\ ~result[Len(result)].in_graph
       /\ \E i \in DOMAIN result :
             result[i].in_graph /\ result[i].similarity < result[Len(result)].similarity

\* C10: discover, expand and every failing commit leave knowledge_triples,
\* valid_relations and graph_high_level_nodes as they were.
C10_OnlyCommitWrites ==
    [][ (response'.op \in { "discover", "expand" } \/ ~IsOk(response'))
        => UNCHANGED db ]_vars

\* C10 witness: a commit refused with Conflict after the store has grown.
C10_Witness ==
    /\ response.op = "commit"
    /\ IsConflict(response)
    /\ Len(knowledge_triples) > Len(Graph1)

--------------------------------------------------------------------------
(* Word2VecService.find_most_similar_topn called on its own *)

\* largest topn asked of find_most_similar_topn (the static lists hold 10)
MaxAsk == 11
\* the most negative topn asked is -MaxNegAsk
MaxNegAsk == 2

XianChong == <<"xian", "chong">>

TopnWords == { ShiDiSong, TianNiu, XianChong, GaoWen, MaWeiSong, YiQing, <<>> }
TopnAsks == (0 - MaxNegAsk)..MaxAsk
TopnLookups == W2VLookups \cup { W2VException }

InitTopn ==
    /\ knowledge_triples = Graph1
    /\ auto_increment = Len(Graph1) + 1
    /\ valid_relations = <<>>
    /\ high_level_nodes = {}
    /\ client = FALSE
    /\ model \in BOOLEAN
    /\ response = NoResponse
    /\ InitWorkers
    /\ args \in [ op : { "find_most_similar_topn" }, word : TopnWords,
                  topn : TopnAsks ]
    /\ ret = NoCall

FindMostSimilarTopn(lookup) ==
    /\ args.op = "find_most_similar_topn"
    /\ ret' = [ op |-> "find_most_similar_topn", lookup |-> lookup,
                result |-> find_most_similar_topn(model, args.word, args.topn,
                                                  lookup) ]
    /\ UNCHANGED <<db, auto_increment, client, model, response, pc, local, reply, args>>

NextTopn ==
    \E lookup \in (IF model THEN TopnLookups ELSE { W2VKeyError }) :
        FindMostSimilarTopn(lookup)

SpecTopn == InitTopn /\ [][NextTopn]_vars

\* the call was answered from the static lists: no model, or the lookup raised
TopnFallback ==
    /\ ret.op = "find_most_similar_topn"
    /\ ~model \/ ret.lookup.kind # "ok"

NonIncreasing(result) ==
    \A i, j \in DOMAIN result : i < j => result[i].score >= result[j].score

\* the static list of a word: its own group, else the global default
StaticList(word) ==
    IF word \in { ShiDiSong, TianNiu, XianChong, GaoWen }
    THEN mock_similar_groups(word) ELSE default_similar

\* C11 as stated: in static-fallback mode, for every term and every integer
\* n, the result is ordered by non-increasing score and holds at most n
\* entries.
C11_FallbackSortedAtMostAnyN ==
    TopnFallback
        => NonIncreasing(ret.result) /\ Len(ret.result) <= args.topn

\* C11 amended: in static-fallback mode, for every term and every integer
\* n >= 0, the result is ordered by non-increasing score and holds at most n
\* entries.
C11_FallbackSortedAtMostN ==
    (TopnFallback /\ args.topn >= 0)
        => NonIncreasing(ret.result) /\ Len(ret.result) <= args.topn

\* C11 witness: a fallback answer cut to three of the ten entries of a group.
C11_Witness ==
    /\ TopnFallback
    /\ args.word = TianNiu
    /\ args.topn = 3
    /\ Len(ret.result) = 3
    /\ ret.result[1].score > ret.result[3].score

--------------------------------------------------------------------------
(* KimiService: backend answer against rule fallback *)

\* the backend was asked, answered, and its trimmed answer is an allowed label
BackendLabelAccepted ==
    /\ client
    /\ args.valid_relations # <<>>
    /\ ret.outcome.kind = "text"
    /\ InList(Strip(ret.outcome.content), args.valid_relations)

\* the relation of the call came from _mock_relation on a non-empty list
RuleFallback ==
    /\ ret.op = "infer_relation"
    /\ args.valid_relations # <<>>
    /\ ~BackendLabelAccepted

\* the lexical class of entityA, in the order the rules test it
EntityClass(entity_a) ==
    IF AnyKeywordIn(tree_keywords, entity_a) THEN "plant"
    ELSE IF AnyKeywordIn(insect_keywords, entity_a) THEN "insect"
    ELSE IF AnyKeywordIn(env_keywords, entity_a) THEN "environment"
    ELSE "other"

ClassPriority(class) ==
    CASE class = "plant" -> << YiGan, ShuYu >>
      [] class = "insect" -> << ChuanBo >>
      [] class = "environment" -> << YingXiang >>
      [] OTHER -> <<>>

\* the first relation of a priority list that is allowed, else allowed[0]
FirstPresent(priority, allowed) ==
    IF \E i \in DOMAIN priority : InList(priority[i], allowed)
    THEN priority[CHOOSE i \in DOMAIN priority :
                     /\ InList(priority[i], allowed)
                     /\ \A j \in 1..(i - 1) : ~InList(priority[j], allowed)]
    ELSE allowed[1]

\* C13: infer_relation returns the backend's (trimmed) label exactly when the
\* backend was asked and that label is in the allowed list; when there is no
\* client, the backend raises or its label is out of vocabulary, the result
\* is _mock_relation(entityA, entityB, allowed) for the same arguments.
C13_BackendLabelOrRule ==
    ret.op = "infer_relation"
        => IF BackendLabelAccepted
           THEN ret.relation = Strip(ret.outcome.content)
           ELSE ret.relation = mock_relation(args.entity_a, args.entity_c,
                                             args.valid_relations)

\* C13 witness: the backend answers 无关, which is not allowed, and the call
\* returns what the rules say for an insect.
C13_Witness ==
    /\ ret.op = "infer_relation"
    /\ client
    /\ ret.outcome = KimiSays(WuGuan)
    /\ args.entity_a = TianNiu
    /\ args.entity_c = YiQing
    /\ args.valid_relations = << ShuYu, ChuanBo >>
    /\ ret.relation = ChuanBo

\* C14 as stated: under the rule fallback the relation is the first relation
\* of the priority list of entityA's class that is allowed, else allowed[0],
\* and a call that differs only in entityB returns the same relation.
C14_RuleIgnoresEntityB ==
    RuleFallback
        => /\ ret.relation = FirstPresent(ClassPriority(EntityClass(args.entity_a)),
                                          args.valid_relations)
           /\ \A other \in InferNames :
                 mock_relation(args.entity_a, other, args.valid_relations)
                     = ret.relation

\* C14 amended: under the rule fallback an insect-class entityA gets 传播 and
\* an environment-class entityA gets 影响 when that relation is allowed; a
\* plant-class entityA gets 易感 when it is allowed and entityB contains a
\* disease keyword, else 属于 when it is allowed and entityB contains a tree
\* keyword; every other case gets allowed[0].  Two calls that differ only in
\* entityB return the same relation when entityA is not of the plant class.
C14_RuleChoice ==
    RuleFallback
        => LET class == EntityClass(args.entity_a)
               allowed == args.valid_relations
               expected ==
                   CASE class = "plant" /\ InList(YiGan, allowed)
                            /\ AnyKeywordIn(disease_keywords, args.entity_c) -> YiGan
                     [] class = "plant" /\ InList(ShuYu, allowed)
                            /\ AnyKeywordIn(tree_keywords, args.entity_c)
                            /\ ~(InList(YiGan, allowed)
                                 /\ AnyKeywordIn(disease_keywords, args.entity_c)) -> ShuYu
                     [] class = "insect" /\ InList(ChuanBo, allowed) -> ChuanBo
                     [] class = "environment" /\ InList(YingXiang, allowed) -> YingXiang
                     [] OTHER -> allowed[1]
           IN /\ ret.relation = expected
              /\ class # "plant"
                    => \A other \in InferNames :
                          mock_relation(args.entity_a, other, allowed) = ret.relation

\* C14 witness: a plant-class entityA whose allowed list holds 易感, with an
\* entityB that names no disease: the rules answer allowed[0], and would
\* answer 易感 against 松材线虫.
C14_Witness ==
    /\ RuleFallback
    /\ ~client
    /\ args.entity_a = ShiDiSong
    /\ args.entity_c = YiQing
    /\ args.valid_relations = << ChuanBo, YiGan >>
    /\ ret.relation = ChuanBo
    /\ mock_relation(ShiDiSong, SongCaiXianChong, << ChuanBo, YiGan >>) = YiGan

--------------------------------------------------------------------------
(* ai_service.py: KimiService.extract_high_level_nodes_by_rules *)

\* 天牛 线虫 松属 病害 昆虫 真菌 病毒 细菌 / 技术 方法 算法 模型 指数 特征 指标 /
\* 学 保护学 昆虫学 病理学 检疫学 生态学 / 防治 措施 检疫 监测 诊断 治疗 /
\* 省份 城市 国家 地区 区域 / 年份 时间 季节 / 风险评估 早期诊断 生态服务
\* 能量代谢 生理指标 基因 代谢通路 种群动态 植被指数 光谱特征 多尺度监测
\* 研究模型 软件
category_keywords ==
    { <<"tian", "niu">>, <<"xian", "chong">>, <<"song", "shu3">>, <<"bing", "hai">>, <<"kun", "chong">>, <<"zhen", "jun">>, <<"bing", "du2">>, <<"xi", "jun">>,
      <<"ji4", "shu">>, <<"fang1", "fa">>, <<"suan", "fa">>, <<"mo2", "xing">>, <<"zhi3", "shu4n">>, <<"te", "zheng1">>, <<"zhi3", "biao">>,
      <<"xue2">>, <<"bao", "hu", "xue2">>, <<"kun", "chong", "xue2">>, <<"bing", "li", "xue2">>, <<"jian3", "yi4", "xue2">>, <<"sheng", "tai", "xue2">>,
      <<"fang", "zhi">>, <<"cuo", "shi1">>, <<"jian3", "yi4">>, <<"jian", "ce">>, <<"zhen3", "duan">>, <<"zhi", "liao">>,
      <<"sheng3", "fen">>, <<"cheng", "shi4">>, <<"guo", "jia">>, <<"di4", "qu">>, <<"qu", "yu4">>,
      <<"nian", "fen">>, <<"shi2", "jian1">>, <<"ji4s", "jie2">>,
      <<"feng", "xian3", "ping", "gu">>, <<"zao", "qi1", "zhen3", "duan">>, <<"sheng", "tai", "fu", "wu4">>, <<"neng", "liang", "dai", "xie">>, <<"sheng", "li", "zhi3", "biao">>,
      <<"ji1", "yin">>, <<"dai", "xie", "tong", "lu">>, <<"zhong3", "qun", "dong", "tai">>, <<"zhi2", "bei", "zhi3", "shu4n">>, <<"guang", "pu", "te", "zheng1">>,
      <<"duo", "chi3", "du", "jian", "ce">>, <<"yan", "jiu", "mo2", "xing">>, <<"ruan", "jian4">> }

\* 学 技术 方法 措施 防治 监测 诊断 评估 指标 特征 指数 模型 算法 通路
category_suffixes ==
    << <<"xue2">>, <<"ji4", "shu">>, <<"fang1", "fa">>, <<"cuo", "shi1">>, <<"fang", "zhi">>, <<"jian", "ce">>, <<"zhen3", "duan">>, <<"ping", "gu">>,
       <<"zhi3", "biao">>, <<"te", "zheng1">>, <<"zhi3", "shu4n">>, <<"mo2", "xing">>, <<"suan", "fa">>, <<"tong", "lu">> >>

\* 物理 化学 生物 营林 检疫 分子 遥感 森林 林业 生态 环境
category_prefixes ==
    << <<"wu", "li">>, <<"hua4", "xue2">>, <<"sheng", "wu">>, <<"ying2", "lin">>, <<"jian3", "yi4">>, <<"fen1", "zi">>, <<"yao2", "gan">>,
       <<"sen", "lin">>, <<"lin", "ye4">>, <<"sheng", "tai">>, <<"huan", "jing">> >>

\* rule 2's category words: 天牛 线虫 松属 病害 昆虫 真菌
short_name_keywords ==
    << <<"tian", "niu">>, <<"xian", "chong">>, <<"song", "shu3">>, <<"bing", "hai">>, <<"kun", "chong">>, <<"zhen", "jun">> >>

\* rule 5's species modifiers: 松 天牛 线虫 病
degree_modifiers == << <<"song">>, <<"tian", "niu">>, <<"xian", "chong">>, <<"bing">> >>

\* the exclusion rule's categories: 天牛 线虫 松属 病害 松 虫
exclusion_categories ==
    << <<"tian", "niu">>, <<"xian", "chong">>, <<"song", "shu3">>, <<"bing", "hai">>, <<"song">>, <<"chong">> >>

Xue == <<"xue2">>

\* str.endswith, str.startswith
EndsWith(s, suffix) ==
    Len(suffix) <= Len(s) /\ SubSeq(s, Len(s) - Len(suffix) + 1, Len(s)) = suffix
StartsWith(s, prefix) ==
    Len(prefix) <= Len(s) /\ SubSeq(s, 1, Len(prefix)) = prefix

\* dict.get(key, 0); a dict is a function on its keys
DictGet(dict, key) == IF key \in DOMAIN dict THEN dict[key] ELSE 0

\* the if / elif chain of rules 1 to 4
MatchesNameRules(node) ==
    IF node \in category_keywords THEN TRUE
    ELSE IF Len(node) <= 3 THEN AnyKeywordIn(short_name_keywords, node)
    ELSE IF \E i \in DOMAIN category_suffixes : EndsWith(node, category_suffixes[i])
    THEN Len(node) <= 6 \/ EndsWith(node, Xue)
    ELSE IF \E i \in DOMAIN category_prefixes : StartsWith(node, category_prefixes[i])
    THEN Len(node) <= 8
    ELSE FALSE

\* rule 5, for a node the name rules left out
MatchesDegreeRule(node, node_degrees, degree) ==
    /\ DOMAIN node_degrees # {}
    /\ degree >= 10
    /\ Len(node) <= 4
    /\ ~AnyKeywordIn(degree_modifiers, node)

\* the exclusion rule
IsConcreteInstance(node) ==
    \E i \in DOMAIN exclusion_categories :
        /\ Contains(exclusion_categories[i], node)
        /\ Len(node) > Len(exclusion_categories[i]) + 2

\* faulty variant: the exclusion rule runs before the degree rule
is_high_level_degree_last(node, node_degrees, degree) ==
    \/ MatchesNameRules(node) /\ ~IsConcreteInstance(node)
    \/ MatchesDegreeRule(node, node_degrees, degree)

\* is_high_level at the end of one iteration of the loop, for a trimmed
\* non-empty node whose looked-up degree is degree
is_high_level(node, node_degrees, degree) ==
    /\ MatchesNameRules(node) \/ MatchesDegreeRule(node, node_degrees, degree)
    /\ ~IsConcreteInstance(node)

\* faulty variant: the degree is looked up under the name as it was given
extract_by_given_name(all_nodes, node_degrees) ==
    { Strip(all_nodes[i]) : i \in
        { j \in DOMAIN all_nodes :
            /\ Strip(all_nodes[j]) # <<>>
            /\ is_high_level(Strip(all_nodes[j]), node_degrees,
                             DictGet(node_degrees, all_nodes[j])) } }

\* KimiService.extract_high_level_nodes_by_rules
extract_high_level_nodes_by_rules(all_nodes, node_degrees) ==
    { Strip(all_nodes[i]) : i \in
        { j \in DOMAIN all_nodes :
            /\ Strip(all_nodes[j]) # <<>>
            /\ is_high_level(Strip(all_nodes[j]), node_degrees,
                             DictGet(node_degrees, Strip(all_nodes[j]))) } }

--------------------------------------------------------------------------
(* extract_high_level_nodes_by_rules called on its own *)

\* longest list of node names classified
MaxNodes == 2

SenLinBaoHuXue == <<"sen", "lin", "bao", "hu", "xue2">>
ZhiWuHuaXueBaoHuXue == <<"zhi2", "wu", "hua4", "xue2", "bao", "hu", "xue2">>
YaoXue == <<"yao", "xue2">>
SenLin == <<"sen", "lin">>
ShengTaiHuanJing == <<"sheng", "tai", "huan", "jing">>
ShengWuFangZhiXinJiShu == <<"sheng", "wu", "fang", "zhi", "xin", "ji4", "shu">>
SongMoTianNiuFangZhi == <<"song", "mo", "tian", "niu", "fang", "zhi">>
SenLinHaiChong == <<"sen", "lin", "hai", "chong">>
XianChongBing == <<"xian", "chong", "bing">>
JiZhu == <<"ji", "zhu">>
JiShengChongHai == <<"ji", "sheng", "chong", "hai">>

ClassifyNames ==
    { TianNiu, SenLinBaoHuXue, ZhiWuHuaXueBaoHuXue, MaWeiSong, YaoXue, SenLin,
      ShengTaiHuanJing, ShengWuFangZhiXinJiShu, SongMoTianNiuFangZhi,
      SenLinHaiChong, XianChongBing, JiZhu, JiShengChongHai,
      Padded(JiZhu), Padded(TianNiu), <<" ">> }

NodeLists == UNION { [ 1..n -> ClassifyNames ] : n \in 0..MaxNodes }

\* node_degrees: none given, or the degrees of some nodes
DegreeMaps ==
    { <<>>,
      (JiZhu :> 10) @@ (JiShengChongHai :> 10) @@ (MaWeiSong :> 12) @@ (YaoXue :> 9),
      (JiZhu :> 9) @@ (Padded(JiZhu) :> 10) @@ (YaoXue :> 10)
          @@ (ShengWuFangZhiXinJiShu :> 10) @@ (SenLin :> 1),
      (SenLin :> 11) @@ (JiShengChongHai :> 3) @@ (TianNiu :> 10) }

\* the lists that hold the elements of a set once each, in any order
Orderings(S) ==
    { order \in [ 1..Cardinality(S) -> S ] :
        \A i, j \in 1..Cardinality(S) : i # j => order[i] # order[j] }

\* the lists that hold the entries of a list in any order
Shuffles(l) ==
    { order \in [ DOMAIN l -> { l[i] : i \in DOMAIN l } ] :
        \E p \in [ DOMAIN l -> DOMAIN l ] :
            /\ \A i, j \in DOMAIN l : i # j => p[i] # p[j]
            /\ \A i \in DOMAIN l : order[i] = l[p[i]] }

InitClassify ==
    /\ knowledge_triples = Graph1
    /\ auto_increment = Len(Graph1) + 1
    /\ valid_relations = <<>>
    /\ high_level_nodes = {}
    /\ client = FALSE
    /\ model = FALSE
    /\ response = NoResponse
    /\ InitWorkers
    /\ args \in [ op : { "extract_high_level_nodes_by_rules" },
                  all_nodes : NodeLists, node_degrees : DegreeMaps ]
    /\ ret = NoCall

\* the first call
Classify ==
    /\ ret = NoCall
    /\ ret' = [ op |-> "extract_high_level_nodes_by_rules",
                nodes |-> extract_high_level_nodes_by_rules(args.all_nodes,
                                                            args.node_degrees) ]
    /\ UNCHANGED <<db, auto_increment, client, model, response, pc, local, reply, args>>

\* a second call on the same names (in any order) and the same degrees
ClassifySameAgain(order) ==
    /\ ret.op = "extract_high_level_nodes_by_rules"
    /\ ret' = [ op |-> "same_input_again", first |-> ret.nodes,
                nodes |-> extract_high_level_nodes_by_rules(order, args.node_degrees) ]
    /\ UNCHANGED <<db, auto_increment, client, model, response, pc, local, reply, args>>

\* a second call on the output of the first (in any order), same degrees
ClassifyOutput(order) ==
    /\ ret.op = "extract_high_level_nodes_by_rules"
    /\ ret' = [ op |-> "own_output", first |-> ret.nodes,
                nodes |-> extract_high_level_nodes_by_rules(order, args.node_degrees) ]
    /\ UNCHANGED <<db, auto_increment, client, model, response, pc, local, reply, args>>

NextClassify ==
    \/ Classify
    \/ \E order \in Shuffles(args.all_nodes) : ClassifySameAgain(order)
    \/ \E order \in Orderings(IF ret.op = "extract_high_level_nodes_by_rules"
                              THEN ret.nodes ELSE {}) : ClassifyOutput(order)

SpecClassify == InitClassify /\ [][NextClassify]_vars

--------------------------------------------------------------------------
(* Properties of the classifier *)

\* the rules as numbered in the source's comments, each as a condition on
\* the trimmed name alone
Rule1(node) == node \in category_keywords
Rule2(node) == Len(node) <= 3 /\ AnyKeywordIn(short_name_keywords, node)
Rule3(node) ==
    /\ \E i \in DOMAIN category_suffixes : EndsWith(node, category_suffixes[i])
    /\ Len(node) <= 6 \/ EndsWith(node, Xue)
Rule4(node) ==
    /\ \E i \in DOMAIN category_prefixes : StartsWith(node, category_prefixes[i])
    /\ Len(node) <= 8

\* the trimmed, non-empty names of the call
ClassifiedNames ==
    { Strip(args.all_nodes[i]) : i \in DOMAIN args.all_nodes } \ { <<>> }

\* C15: a second run on the same names and degrees yields the same set, and
\* a run on the output of the first run with the same degrees returns that
\* output unchanged.
C15_ClassifyIdempotent ==
    ret.op \in { "same_input_again", "own_output" } => ret.nodes = ret.first

\* C15 witness: the first run admitted one name by its degree (given with
\* surrounding whitespace) and one by its suffix, and the run on that output
\* returned both.
C15_Witness ==
    /\ ret.op = "own_output"
    /\ args.all_nodes = << Padded(JiZhu), SenLinBaoHuXue >>
    /\ DictGet(args.node_degrees, JiZhu) = 10
    /\ ret.first = { JiZhu, SenLinBaoHuXue }
    /\ ret.nodes = { JiZhu, SenLinBaoHuXue }

\* C16: every name that matches neither rule 1 nor rule 2 and ends with a
\* category suffix, with length <= 6 or ending with 学, is in the output
\* unless the exclusion rule demotes it; names of 3 characters or fewer
\* included.
C16_Rule3ForEveryName ==
    ret.op = "extract_high_level_nodes_by_rules"
        => \A node \in ClassifiedNames :
              (~Rule1(node) /\ ~Rule2(node) /\ Rule3(node)
                  /\ ~IsConcreteInstance(node))
                  => node \in ret.nodes

\* C17: every name that matches none of rules 1 to 3 and starts with a
\* category prefix with length <= 8 is in the output unless the exclusion
\* rule demotes it; names that end with a category suffix but are longer
\* than 6 characters included.
C17_Rule4ForEveryName ==
    ret.op = "extract_high_level_nodes_by_rules"
        => \A node \in ClassifiedNames :
              (~Rule1(node) /\ ~Rule2(node) /\ ~Rule3(node) /\ Rule4(node)
                  /\ ~IsConcreteInstance(node))
                  => node \in ret.nodes

\* C18: no name of the output contains one of 天牛, 线虫, 松属, 病害, 松, 虫
\* while being more than 2 characters longer than it, whichever rule
\* admitted the name.
C18_NoConcreteInstanceInOutput ==
    ret.op # "none"
        => \A node \in ret.nodes :
              \A category \in { <<"tian", "niu">>, <<"xian", "chong">>, <<"song", "shu3">>, <<"bing", "hai">>, <<"song">>, <<"chong">> } :
                  ~(Contains(category, node) /\ Len(node) > Len(category) + 2)

\* C18 witness: 寄生虫害 has degree 10 and 4 characters, so the degree rule
\* admits it, and 松墨天牛防治 ends with a suffix; both are demoted, 天牛 stays.
C18_Witness ==
    /\ ret.op = "extract_high_level_nodes_by_rules"
    /\ \E i \in DOMAIN args.all_nodes : args.all_nodes[i] = JiShengChongHai
    /\ \E i \in DOMAIN args.all_nodes : args.all_nodes[i] = SongMoTianNiuFangZhi
    /\ DictGet(args.node_degrees, JiShengChongHai) = 10
    /\ ret.nodes = {}

--------------------------------------------------------------------------
(* multi_entity_analyzer.py: MultiEntityAnalyzer *)
(* Confidences are in hundredths (1.0 is 100); a detected entity is a dict, *)
(* a function on its keys; matched_kb_entity <<>> stands for None.          *)

SongZhenFaHuang == <<"song", "zhen1", "fa1", "huang">>
SongZhenBianHong == <<"song", "zhen1", "bian", "hong">>
SongCaiXianChongBing == <<"song", "cai", "xian", "chong", "bing">>

\* the value None in a slot that otherwise holds a dict
None == [ none |-> TRUE ]

\* self.relationship_rules:
\* (insect, disease_symptom): 传播 携带 引起; (insect, tree): 寄主 感染 攻击;
\* (tree, disease_symptom): 表现 易感 出现;
\* (disease_symptom, disease_symptom): 伴随 导致 发展; (insect, insect): 竞争 协同 替代
relationship_rules ==
    ( << "insect", "disease_symptom" >> :> << <<"chuan", "bo">>, <<"xie2", "dai4">>, <<"yin3", "qi3">> >> )
    @@ ( << "insect", "tree" >> :> << <<"ji", "zhu">>, <<"gan", "ran">>, <<"gong", "ji2">> >> )
    @@ ( << "tree", "disease_symptom" >> :> << <<"biao3", "xian4">>, <<"yi", "gan">>, <<"chu", "xian4">> >> )
    @@ ( << "disease_symptom", "disease_symptom" >> :> << <<"ban", "sui">>, <<"dao", "zhi4">>, <<"fa1", "zhan">> >> )
    @@ ( << "insect", "insect" >> :> << <<"jing4", "zheng4">>, <<"xie3", "tong2">>, <<"ti4", "dai">> >> )

\* entity.get("matched_kb_entity") or entity["name"]
ResolvedName(entity) ==
    IF "matched_kb_entity" \in DOMAIN entity /\ entity.matched_kb_entity # <<>>
    THEN entity.matched_kb_entity
    ELSE entity.name

\* itertools.combinations(range(1, n + 1), 2), from <<i, j>> on
RECURSIVE CombinationsFrom(_, _, _)
CombinationsFrom(i, j, n) ==
    IF i >= n THEN <<>>
    ELSE IF j > n THEN CombinationsFrom(i + 1, i + 2, n)
    ELSE << <<i, j>> >> \o CombinationsFrom(i, j + 1, n)

Combinations(n) == CombinationsFrom(1, 2, n)

\* the rows of one SELECT of _query_existing_relationships, as relationships
LinkRows(rows, entity_a, entity_b) ==
    LET hit(row) ==
            \/ row.head_entity = entity_a /\ row.tail_entity = entity_b
            \/ row.head_entity = entity_b /\ row.tail_entity = entity_a
        found == SelectSeq(rows, hit)
    IN [ i \in DOMAIN found |->
            [ head_entity |-> found[i].head_entity, relation |-> found[i].relation,
              tail_entity |-> found[i].tail_entity, source |-> "existing",
              confidence |-> 100 ] ]

RECURSIVE QueryPairs(_, _, _)
QueryPairs(rows, entity_names, pairs) ==
    IF pairs = <<>> THEN <<>>
    ELSE LinkRows(rows, entity_names[Head(pairs)[1]], entity_names[Head(pairs)[2]])
             \o QueryPairs(rows, entity_names, Tail(pairs))

\* MultiEntityAnalyzer._query_existing_relationships
query_existing_relationships(rows, detected_entities) ==
    QueryPairs(rows,
               [ i \in DOMAIN detected_entities |-> ResolvedName(detected_entities[i]) ],
               Combinations(Len(detected_entities)))

\* round(x, 1) of x given in thousandths, as hundredths; tie_up says which
\* way binary floating point takes a value that is halfway in decimal
RoundTenth(thousandths, tie_up) ==
    LET tenths == thousandths \div 100
        rest == thousandths % 100
    IN IF rest > 50 \/ (rest = 50 /\ tie_up) THEN 10 * (tenths + 1) ELSE 10 * tenths

\* relation_confidence_boost, in thousandths: 传播 0.2, 感染 0.2, 易感 0.15, 寄主 0.15
relation_confidence_boost(relation) ==
    CASE relation = <<"chuan", "bo">> -> 200
      [] relation = <<"gan", "ran">> -> 200
      [] relation = <<"yi", "gan">> -> 150
      [] relation = <<"ji", "zhu">> -> 150
      [] OTHER -> 0

\* MultiEntityAnalyzer._calculate_inference_confidence, for two entities that
\* have a confidence
calculate_inference_confidence(entity_a, entity_b, relation, tie_up) ==
    LET base_confidence == 600
        \* (a + b) / 2 * 0.2, in thousandths, of confidences in hundredths
        entity_conf_factor == entity_a.confidence + entity_b.confidence
        kb_match(entity) ==
            IF "matched_kb_entity" \in DOMAIN entity /\ entity.matched_kb_entity # <<>>
            THEN 100 ELSE 0
    IN RoundTenth(Min(base_confidence + entity_conf_factor + kb_match(entity_a)
                          + kb_match(entity_b) + relation_confidence_boost(relation),
                      1000),
                  tie_up)

\* faulty variant: the inferred relation is not looked up in valid_relations
InferPairUnchecked(entity_a, entity_b, table, self_client, outcome, tie_up) ==
    LET name_a == ResolvedName(entity_a)
        name_b == ResolvedName(entity_b)
        rule_key == IF << entity_a.type, entity_b.type >> \in DOMAIN relationship_rules
                    THEN << entity_a.type, entity_b.type >>
                    ELSE << entity_b.type, entity_a.type >>
        suggested_relations == IF rule_key \in DOMAIN relationship_rules
                               THEN relationship_rules[rule_key] ELSE table
        inferred_relation ==
            infer_relation(self_client, name_a, name_b, suggested_relations, outcome)
    IN IF ~("confidence" \in DOMAIN entity_a /\ "confidence" \in DOMAIN entity_b)
       THEN <<>>
       ELSE << [ head_entity |-> name_a, relation |-> inferred_relation,
                 tail_entity |-> name_b, source |-> "ai_inference",
                 confidence |-> calculate_inference_confidence(entity_a, entity_b,
                                                               inferred_relation, tie_up),
                 entity_a_type |-> entity_a.type, entity_b_type |-> entity_b.type ] >>

\* one iteration of the loop of _infer_potential_relationships: the entries
\* (none or one) it appends; a KeyError of a missing confidence is caught
InferPair(entity_a, entity_b, table, self_client, outcome, tie_up) ==
    LET name_a == ResolvedName(entity_a)
        name_b == ResolvedName(entity_b)
        type_a == entity_a.type
        type_b == entity_b.type
        rule_key == IF << type_a, type_b >> \in DOMAIN relationship_rules
                    THEN << type_a, type_b >> ELSE << type_b, type_a >>
        suggested_relations == IF rule_key \in DOMAIN relationship_rules
                               THEN relationship_rules[rule_key] ELSE table
        inferred_relation ==
            infer_relation(self_client, name_a, name_b, suggested_relations, outcome)
    IN IF ~InList(inferred_relation, table) THEN <<>>
       ELSE IF ~("confidence" \in DOMAIN entity_a /\ "confidence" \in DOMAIN entity_b)
       THEN <<>>
       ELSE << [ head_entity |-> name_a, relation |-> inferred_relation,
                 tail_entity |-> name_b, source |-> "ai_inference",
                 confidence |-> calculate_inference_confidence(entity_a, entity_b,
                                                               inferred_relation, tie_up),
                 entity_a_type |-> type_a, entity_b_type |-> type_b ] >>

\* faulty variant: the first pair that fails ends the loop
RECURSIVE InferPairsUntilFailure(_, _, _, _, _, _, _)
InferPairsUntilFailure(detected_entities, pairs, k, table, self_client, script, tie_up) ==
    IF pairs = <<>> THEN <<>>
    ELSE IF ~("confidence" \in DOMAIN detected_entities[Head(pairs)[1]]
              /\ "confidence" \in DOMAIN detected_entities[Head(pairs)[2]])
    THEN <<>>
    ELSE InferPair(detected_entities[Head(pairs)[1]], detected_entities[Head(pairs)[2]],
                   table, self_client, script[k], tie_up)
             \o InferPairsUntilFailure(detected_entities, Tail(pairs), k + 1, table,
                                       self_client, script, tie_up)

RECURSIVE InferPairs(_, _, _, _, _, _, _)
InferPairs(detected_entities, pairs, k, table, self_client, script, tie_up) ==
    IF pairs = <<>> THEN <<>>
    ELSE InferPair(detected_entities[Head(pairs)[1]], detected_entities[Head(pairs)[2]],
                   table, self_client, script[k], tie_up)
             \o InferPairs(detected_entities, Tail(pairs), k + 1, table, self_client,
                           script, tie_up)

\* MultiEntityAnalyzer._infer_potential_relationships; table is the
\* relation_name column of valid_relations, script[k] is what the backend
\* does at the k-th pair if it is asked
infer_potential_relationships(detected_entities, table, self_client, script, tie_up) ==
    IF Len(table) = 0 THEN <<>>
    ELSE InferPairs(detected_entities, Combinations(Len(detected_entities)), 1,
                    table, self_client, script, tie_up)

\* risk_assessment: 高风险, 中风险, 低风险
GaoFengXian == <<"gao", "feng", "xian3">>
ZhongFengXian == <<"zhong", "feng", "xian3">>
DiFengXian == <<"di1", "feng", "xian3">>

\* faulty variant: the bonus for 松墨天牛 with 马尾松 is missing
specific_combinations_without_host ==
    << << SongMoTianNiu, SongZhenFaHuang, 25 >>,
       << SongZhenBianHong, MaWeiSong, 20 >>,
       << SongZhenBianHong, SongZhenFaHuang, 0 >> >>

\* specific_combinations, bonus in hundredths:
\* (松墨天牛, 马尾松, 0.3), (松墨天牛, 松针发黄, 0.25), (松针变红, 马尾松, 0.2)
specific_combinations ==
    << << SongMoTianNiu, MaWeiSong, 30 >>,
       << SongMoTianNiu, SongZhenFaHuang, 25 >>,
       << SongZhenBianHong, MaWeiSong, 20 >> >>

\* the sum of f[i] over the indices in S
RECURSIVE SumOver(_, _)
SumOver(f, S) ==
    IF S = {} THEN 0
    ELSE LET i == CHOOSE x \in S : TRUE IN f[i] + SumOver(f, S \ { i })

\* round(confidence, 1) of the scenario confidence: the only sums that are
\* not whole tenths are 0.4 + 0.25, which floating point rounds up to 0.7,
\* and 0.4 + 0.3 + 0.25, which it rounds down to 0.9
RoundScenario(confidence) ==
    CASE confidence = 65 -> 70
      [] confidence = 95 -> 90
      [] OTHER -> confidence

\* MultiEntityAnalyzer._get_pine_disease_recommendation; the sum 0.4 + 0.2
\* is 0.6000000000000001 in floating point, so it is above 0.6
get_pine_disease_recommendation(confidence) ==
    IF confidence > 80 THEN "isolate_and_treat_now"
    ELSE IF confidence >= 60 THEN "confirm_by_professional_test"
    ELSE "strengthen_monitoring"

\* MultiEntityAnalyzer._validate_pine_disease_combination
validate_pine_disease_combination(detected_entities) ==
    LET entity_names ==
            [ i \in DOMAIN detected_entities |-> ResolvedName(detected_entities[i]) ]
        has_insect == \E i \in DOMAIN detected_entities :
            Contains(TianNiu, entity_names[i]) \/ detected_entities[i].type = "insect"
        has_pine == \E i \in DOMAIN detected_entities :
            Contains(<<"song">>, entity_names[i]) \/ detected_entities[i].type = "tree"
        has_symptom == \E i \in DOMAIN detected_entities :
            detected_entities[i].type = "disease_symptom"
        present(k) ==
            /\ \E i \in DOMAIN entity_names :
                  Contains(specific_combinations[k][1], entity_names[i])
            /\ \E i \in DOMAIN entity_names :
                  Contains(specific_combinations[k][2], entity_names[i])
        bonus == [ k \in DOMAIN specific_combinations |->
                     IF present(k) THEN specific_combinations[k][3] ELSE 0 ]
        confidence ==
            Min((IF has_insect /\ has_pine THEN 40 ELSE 0)
                    + (IF has_symptom THEN 30 ELSE 0)
                    + (IF has_insect /\ has_symptom THEN 20 ELSE 0)
                    + SumOver(bonus, DOMAIN bonus),
                100)
        evidence ==
            (IF has_insect /\ has_pine THEN << "vector_and_host" >> ELSE <<>>)
                \o (IF has_symptom THEN << "symptom" >> ELSE <<>>)
                \o (IF has_insect /\ has_symptom THEN << "vector_with_symptom" >> ELSE <<>>)
                \o (IF present(1) THEN << "key_combination_1" >> ELSE <<>>)
                \o (IF present(2) THEN << "key_combination_2" >> ELSE <<>>)
                \o (IF present(3) THEN << "key_combination_3" >> ELSE <<>>)
    IN IF ~(has_insect \/ has_pine \/ has_symptom) THEN None
       ELSE IF confidence > 30
       THEN [ scenario |-> SongCaiXianChongBing,
              confidence |-> RoundScenario(confidence),
              evidence |-> evidence,
              risk_assessment |-> IF confidence > 70 THEN GaoFengXian
                                  ELSE IF confidence > 50 THEN ZhongFengXian
                                  ELSE DiFengXian,
              recommendation |-> get_pine_disease_recommendation(confidence) ]
       ELSE None

\* MultiEntityAnalyzer._validate_entity_combinations
validate_entity_combinations(detected_entities) ==
    LET pine_disease_validation == validate_pine_disease_combination(detected_entities)
        validation_results == IF pine_disease_validation # None
                              THEN << pine_disease_validation >> ELSE <<>>
    IN [ validated_scenarios |-> validation_results,
         highest_confidence_scenario |->
             IF validation_results # <<>> THEN validation_results[1] ELSE None,
         validation_summary |->
             [ total_scenarios |-> Len(validation_results),
               max_confidence |-> IF validation_results # <<>>
                                  THEN validation_results[1].confidence ELSE 0 ] ]

\* faulty variant: the weighted sum also when no relation was found
relationship_confidence_always_weighted(existing_rels, potential_rels, validation, tie_up) ==
    RoundTenth(Min(Len(existing_rels) * 300
                       + 2 * SumOver([ i \in DOMAIN potential_rels |->
                                          potential_rels[i].confidence ],
                                     DOMAIN potential_rels)
                       + (IF validation.highest_confidence_scenario # None
                          THEN validation.highest_confidence_scenario.confidence * 5
                          ELSE 0),
                   1000),
               tie_up)

\* MultiEntityAnalyzer._calculate_relationship_confidence
calculate_relationship_confidence(existing_rels, potential_rels, validation, tie_up) ==
    IF existing_rels = <<>> /\ potential_rels = <<>> THEN 0
    ELSE LET \* weights in thousandths
             existing_weight == Len(existing_rels) * 300
             potential_weight ==
                 2 * SumOver([ i \in DOMAIN potential_rels |-> potential_rels[i].confidence ],
                             DOMAIN potential_rels)
             validation_weight ==
                 IF validation.highest_confidence_scenario # None
                 THEN validation.highest_confidence_scenario.confidence * 5 ELSE 0
         IN RoundTenth(Min(existing_weight + potential_weight + validation_weight, 1000),
                       tie_up)

\* MultiEntityAnalyzer._generate_recommendations; each sentence is a record
\* naming its template and what is filled in
generate_recommendations(entities, existing_rels, potential_rels, validation) ==
    LET scenario == validation.highest_confidence_scenario
        high_conf_potential ==
            { i \in DOMAIN potential_rels : potential_rels[i].confidence > 70 }
        entity_types == { entities[i].type : i \in DOMAIN entities }
    IN (IF scenario # None
        THEN << [ text |-> "scenario_hint", scenario |-> scenario.scenario,
                  recommendation |-> scenario.recommendation ] >>
        ELSE <<>>)
       \o (IF high_conf_potential # {}
           THEN << [ text |-> "add_potential_relations",
                     count |-> Cardinality(high_conf_potential) ] >>
           ELSE <<>>)
       \o (IF "insect" \in entity_types /\ "tree" \in entity_types
           THEN << [ text |-> "monitor_spread_risk" ] >> ELSE <<>>)
       \o (IF "disease_symptom" \in entity_types
           THEN << [ text |-> "treat_symptoms" ] >> ELSE <<>>)

\* MultiEntityAnalyzer._generate_analysis_summary
generate_analysis_summary(entities, existing_rels, validation) ==
    [ entity_count |-> Len(entities),
      relation_count |-> Len(existing_rels),
      scenario |-> IF validation.highest_confidence_scenario # None
                   THEN [ scenario |-> validation.highest_confidence_scenario.scenario,
                          confidence |-> validation.highest_confidence_scenario.confidence ]
                   ELSE None ]

\* what a call of the analyzer did: it returned value or raised error, after
\* sql statements on the database and asked calls of the generative backend
Returned(value, sql, asked) ==
    [ kind |-> "return", value |-> value, sql |-> sql, asked |-> asked ]
Raised(error, sql, asked) ==
    [ kind |-> "raise", value |-> [ error |-> error ], sql |-> sql, asked |-> asked ]

\* 需要检测到至少2个实体才能进行关系分析
NeedTwoEntities == [ text |-> "need_two_entities" ]

\* the result for fewer than two entities
insufficient_entities(detected_entities) ==
    Returned([ entity_count |-> Len(detected_entities),
               relationships |-> <<>>,
               validation_result |-> None,
               confidence |-> 0,
               recommendations |-> << NeedTwoEntities >> ], 0, 0)

\* the try block of analyze_entity_relationships; database_up says whether
\* pymysql.connect succeeds
analyze_batch(rows, table, self_client, detected_entities, database_up, script, tie_up) ==
    IF ~database_up THEN Raised("OperationalError", 0, 0)
    ELSE LET pairs == Len(Combinations(Len(detected_entities)))
             existing_relationships == query_existing_relationships(rows, detected_entities)
             potential_relationships ==
                 infer_potential_relationships(detected_entities, table, self_client,
                                               script, tie_up)
             validation_result == validate_entity_combinations(detected_entities)
         IN Returned(
               [ entity_count |-> Len(detected_entities),
                 detected_entities |-> detected_entities,
                 existing_relationships |-> existing_relationships,
                 potential_relationships |-> potential_relationships,
                 validation_result |-> validation_result,
                 relationship_confidence |->
                     calculate_relationship_confidence(existing_relationships,
                         potential_relationships, validation_result, tie_up),
                 recommendations |->
                     generate_recommendations(detected_entities, existing_relationships,
                         potential_relationships, validation_result),
                 analysis_summary |->
                     generate_analysis_summary(detected_entities, existing_relationships,
                                               validation_result) ],
               pairs + 1,
               IF self_client /\ Len(table) > 0 THEN pairs ELSE 0)

\* faulty variant: only the empty batch is answered without analysis
analyze_unless_empty(rows, table, self_client, detected_entities, database_up, script, tie_up) ==
    IF Len(detected_entities) < 1
    THEN insufficient_entities(detected_entities)
    ELSE analyze_batch(rows, table, self_client, detected_entities, database_up,
                       script, tie_up)

\* MultiEntityAnalyzer.analyze_entity_relationships
analyze_entity_relationships(rows, table, self_client, detected_entities, database_up, script, tie_up) ==
    IF Len(detected_entities) < 2
    THEN insufficient_entities(detected_entities)
    ELSE analyze_batch(rows, table, self_client, detected_entities, database_up,
                       script, tie_up)

--------------------------------------------------------------------------
(* analyze_entity_relationships called on its own *)

\* largest number of detected entities in a batch
MaxEntities == 3

Entity(name, type, confidence, matched_kb_entity) ==
    [ name |-> name, type |-> type, confidence |-> confidence,
      matched_kb_entity |-> matched_kb_entity ]

\* 松墨天牛 recognised as an insect and matched to itself in the knowledge base
InsectEntity == Entity(SongMoTianNiu, "insect", 90, SongMoTianNiu)
\* 松墨天牛 whose best knowledge-base match is 天牛
InsectMatchedElsewhere == Entity(SongMoTianNiu, "insect", 80, TianNiu)
\* 马尾松 without a knowledge-base match
TreeEntity == Entity(MaWeiSong, "tree", 80, <<>>)
\* 马尾松 as a client may send it: no confidence, no matched_kb_entity
TreeWithoutConfidence == [ name |-> MaWeiSong, type |-> "tree" ]
SymptomEntity == Entity(SongZhenFaHuang, "disease_symptom", 90, <<>>)
ClimateEntity == Entity(GaoWen, "environment", 80, <<>>)

DetectedEntities ==
    { InsectEntity, InsectMatchedElsewhere, TreeEntity, TreeWithoutConfidence,
      SymptomEntity, ClimateEntity }

Batches == UNION { [ 1..n -> DetectedEntities ] : n \in 0..MaxEntities }

\* knowledge_triples with a stored link between 松墨天牛 and 马尾松
Graph3 == Graph1 \o << Row(5, SongMoTianNiu, <<"ji", "zhu">>, MaWeiSong) >>

\* what the generative backend does, call after call
BackendScripts ==
    { [ k \in 1..((MaxEntities * (MaxEntities - 1)) \div 2) |-> outcome ] :
        outcome \in { KimiRaises, KimiSays(YiGan), KimiSays(Padded(<<"gan", "ran">>)) } }

InitAnalyze ==
    /\ knowledge_triples \in { Graph1, Graph3 }
    /\ auto_increment = Len(knowledge_triples) + 1
    /\ valid_relations \in { <<>>, << ShuYu, ChuanBo, YiGan, <<"ji", "zhu">> >> }
    /\ high_level_nodes = {}
    /\ client \in BOOLEAN
    /\ model = FALSE
    /\ response = NoResponse
    /\ InitWorkers
    /\ args \in [ op : { "analyze_entity_relationships" },
                  detected_entities : Batches, database_up : BOOLEAN ]
    /\ ret = NoCall

Analyze(script, tie_up) ==
    /\ args.op = "analyze_entity_relationships"
    /\ ret' = [ op |-> "analyze_entity_relationships", script |-> script,
                result |-> analyze_entity_relationships(knowledge_triples,
                               valid_relations, client, args.detected_entities,
                               args.database_up, script, tie_up) ]
    /\ UNCHANGED <<db, auto_increment, client, model, response, pc, local, reply, args>>

NextAnalyze ==
    \E script \in BackendScripts, tie_up \in BOOLEAN : Analyze(script, tie_up)

SpecAnalyze == InitAnalyze /\ [][NextAnalyze]_vars

--------------------------------------------------------------------------
(* Properties of the analyzer *)

\* the leading scenario of the last analysis
LeadingScenario == ret.result.value.validation_result.highest_confidence_scenario

\* C19: with zero or one entity analyze_entity_relationships returns, even
\* with the database down, without a statement on the database or a call of
\* the backend; the result holds confidence 0.0, an empty relationship list
\* and the one recommendation that two entities are needed.
C19_InsufficientInput ==
    (ret.op = "analyze_entity_relationships" /\ Len(args.detected_entities) < 2)
        => /\ ret.result.kind = "return"
           /\ ret.result.sql = 0
           /\ ret.result.asked = 0
           /\ { "confidence", "relationships", "recommendations" }
                  \subseteq DOMAIN ret.result.value
           /\ ret.result.value.confidence = 0
           /\ ret.result.value.relationships = <<>>
           /\ ret.result.value.recommendations = << NeedTwoEntities >>

\* C19 witness: one entity without a confidence, the database down and a
\* backend present.
C19_Witness ==
    /\ ret.op = "analyze_entity_relationships"
    /\ args.detected_entities = << TreeWithoutConfidence >>
    /\ ~args.database_up
    /\ client
    /\ ret.result.kind = "return"
    /\ ret.result.value.entity_count = 1

\* C20 as stated: every analysed batch with an insect entity whose name is
\* 松墨天牛 and a tree entity whose name is 马尾松 has a leading scenario with
\* confidence >= 0.4 and risk 中风险 or 高风险.
C20_VectorAndHostByName ==
    (/\ ret.op = "analyze_entity_relationships"
     /\ ret.result.kind = "return"
     /\ \E i \in DOMAIN args.detected_entities :
           /\ args.detected_entities[i].type = "insect"
           /\ args.detected_entities[i].name = SongMoTianNiu
     /\ \E i \in DOMAIN args.detected_entities :
           /\ args.detected_entities[i].type = "tree"
           /\ args.detected_entities[i].name = MaWeiSong)
        => /\ LeadingScenario # None
           /\ LeadingScenario.confidence >= 40
           /\ LeadingScenario.risk_assessment \in { ZhongFengXian, GaoFengXian }

\* C20 amended: every analysed batch with an insect entity whose resolved
\* name (matched_kb_entity when it is set, else name) is 松墨天牛 and a tree
\* entity whose resolved name is 马尾松 has a leading scenario with
\* confidence >= 0.4 and risk 中风险 or 高风险.
C20_VectorAndHostByResolvedName ==
    (/\ ret.op = "analyze_entity_relationships"
     /\ ret.result.kind = "return"
     /\ \E i \in DOMAIN args.detected_entities :
           /\ args.detected_entities[i].type = "insect"
           /\ ResolvedName(args.detected_entities[i]) = SongMoTianNiu
     /\ \E i \in DOMAIN args.detected_entities :
           /\ args.detected_entities[i].type = "tree"
           /\ ResolvedName(args.detected_entities[i]) = MaWeiSong)
        => /\ LeadingScenario # None
           /\ LeadingScenario.confidence >= 40
           /\ LeadingScenario.risk_assessment \in { ZhongFengXian, GaoFengXian }

\* C20 witness: the two entities alone give 0.4 + 0.3 = 0.7, which is not
\* above 0.7: 中风险.
C20_Witness ==
    /\ ret.op = "analyze_entity_relationships"
    /\ args.detected_entities = << InsectEntity, TreeEntity >>
    /\ ret.result.kind = "return"
    /\ LeadingScenario.confidence = 70
    /\ LeadingScenario.risk_assessment = ZhongFengXian

\* the last call analysed a batch of two or more entities and returned
Analysed ==
    /\ ret.op = "analyze_entity_relationships"
    /\ Len(args.detected_entities) >= 2
    /\ ret.result.kind = "return"

PotentialRelationships == ret.result.value.potential_relationships
ExistingRelationships == ret.result.value.existing_relationships

\* C21: a pair of entities whose resolved names are already connected by a
\* stored triple, in either direction, contributes no entry to
\* potential_relationships.
C21_NoPotentialForLinkedPair ==
    Analysed
        => \A i \in DOMAIN PotentialRelationships :
              LinkRows(knowledge_triples, PotentialRelationships[i].head_entity,
                       PotentialRelationships[i].tail_entity) = <<>>

\* C22: every entry of potential_relationships has a relation that is a
\* member of valid_relations, also when the shortlist came from
\* relationship_rules, and with an empty valid_relations the list is empty.
C22_PotentialRelationIsValid ==
    Analysed
        => /\ \A i \in DOMAIN PotentialRelationships :
                 InList(PotentialRelationships[i].relation, valid_relations)
           /\ valid_relations = <<>> => PotentialRelationships = <<>>

\* C22 witness: an insect and a tree, for which relationship_rules lists
\* 寄主 感染 攻击; the backend answers 感染, which is not in valid_relations,
\* so the pair is left out while the pairs with 高温 are reported.
C22_Witness ==
    /\ Analysed
    /\ args.detected_entities = << InsectEntity, TreeEntity, ClimateEntity >>
    /\ client
    /\ ret.script[1] = KimiSays(Padded(<<"gan", "ran">>))
    /\ Len(PotentialRelationships) = 2
    /\ \A i \in DOMAIN PotentialRelationships :
          PotentialRelationships[i].tail_entity = GaoWen

\* the entries of a list of relationships without their confidence
Links(relationships) ==
    [ i \in DOMAIN relationships |->
        << relationships[i].head_entity, relationships[i].relation,
           relationships[i].tail_entity >> ]

\* f[1] \o ... \o f[n]
RECURSIVE Chain(_, _)
Chain(f, n) == IF n = 0 THEN <<>> ELSE Chain(f, n - 1) \o f[n]

\* the k-th pair of the batch, analysed as if it were the only one
PairAlone(k) ==
    LET pair == Combinations(Len(args.detected_entities))[k]
    IN InferPair(args.detected_entities[pair[1]], args.detected_entities[pair[2]],
                 valid_relations, client, ret.script[k], TRUE)

\* an entity of the k-th pair has no confidence: KeyError in
\* _calculate_inference_confidence
PairFails(k) ==
    LET pair == Combinations(Len(args.detected_entities))[k]
    IN \/ "confidence" \notin DOMAIN args.detected_entities[pair[1]]
       \/ "confidence" \notin DOMAIN args.detected_entities[pair[2]]

\* C25: a failure while inferring the relation or confidence of one pair
\* never aborts the batch: the analysis returns, the failed pair has no entry
\* in potential_relationships and every other pair is reported as it would be
\* on its own.
C25_FailedPairOmitted ==
    ( /\ ret.op = "analyze_entity_relationships"
      /\ Len(args.detected_entities) >= 2
      /\ args.database_up )
    => /\ ret.result.kind = "return"
       /\ LET pairs == DOMAIN Combinations(Len(args.detected_entities))
          IN /\ \A k \in pairs : PairFails(k) => PairAlone(k) = <<>>
             /\ Links(PotentialRelationships)
                  = Chain([ k \in pairs |-> Links(PairAlone(k)) ], Cardinality(pairs))

\* C25 witness: 马尾松 without a confidence between 松墨天牛 and 松针发黄; the
\* first and the last pair fail, the pair in between is reported.
C25_Witness ==
    /\ Analysed
    /\ args.detected_entities = << InsectEntity, TreeWithoutConfidence, SymptomEntity >>
    /\ valid_relations # <<>>
    /\ PairFails(1) /\ ~PairFails(2) /\ PairFails(3)
    /\ Links(PotentialRelationships)
         = << << SongMoTianNiu, ChuanBo, SongZhenFaHuang >> >>

\* 0.3 * |E| + 0.2 * sum of the confidences in P + 0.5 * leading-scenario
\* confidence, cut at 1, in thousandths
WeightedSum ==
    Min(300 * Len(ExistingRelationships)
          + 2 * SumOver([ i \in DOMAIN PotentialRelationships |->
                             PotentialRelationships[i].confidence ],
                        DOMAIN PotentialRelationships)
          + (IF LeadingScenario # None THEN 5 * LeadingScenario.confidence ELSE 0),
        1000)

\* C24 as stated: the aggregate confidence equals
\* min(1, 0.3*|E| + 0.2*sum(P) + 0.5*L) and lies in [0,1], also when E and P
\* are both empty and a scenario was validated.
C24_WeightedSumAlways ==
    Analysed
        => /\ 10 * ret.result.value.relationship_confidence = WeightedSum
           /\ ret.result.value.relationship_confidence \in 0..100

\* C24 amended: when E or P is not empty the aggregate confidence is
\* min(1, 0.3*|E| + 0.2*sum(P) + 0.5*L) rounded to one decimal; when E and P
\* are both empty it is 0.0, whatever the scenario; it lies in [0,1].
C24_WeightedSumRoundedOrZero ==
    Analysed
        => /\ ret.result.value.relationship_confidence \in 0..100
           /\ IF ExistingRelationships = <<>> /\ PotentialRelationships = <<>>
              THEN ret.result.value.relationship_confidence = 0
              ELSE ret.result.value.relationship_confidence
                     \in { RoundTenth(WeightedSum, TRUE), RoundTenth(WeightedSum, FALSE) }

\* C24 witness: 松墨天牛 and 马尾松 with no stored link and an empty
\* valid_relations: scenario confidence 0.7, aggregate confidence 0.0.
C24_Witness ==
    /\ Analysed
    /\ ExistingRelationships = <<>>
    /\ PotentialRelationships = <<>>
    /\ LeadingScenario # None
    /\ LeadingScenario.confidence = 70
    /\ ret.result.value.relationship_confidence = 0

--------------------------------------------------------------------------
(* analyze_entity_relationships on a batch and on the same batch reordered *)

\* without a client the backend is never asked
NeverAsked == [ k \in 1..((MaxEntities * (MaxEntities - 1)) \div 2) |-> KimiRaises ]

InitPermutation ==
    /\ knowledge_triples \in { Graph1, Graph3 }
    /\ auto_increment = Len(knowledge_triples) + 1
    /\ valid_relations \in { <<>>, << ShuYu, ChuanBo, YiGan, <<"ji", "zhu">> >> }
    /\ high_level_nodes = {}
    /\ client = FALSE
    /\ model = FALSE
    /\ response = NoResponse
    /\ InitWorkers
    /\ args \in [ op : { "analyze_permutation" }, detected_entities : Batches ]
    /\ ret = NoCall

AnalyzePermutation(reordered, tie_up) ==
    /\ args.op = "analyze_permutation"
    /\ ret' = [ op |-> "analyze_permutation", reordered |-> reordered,
                given |-> analyze_entity_relationships(knowledge_triples,
                              valid_relations, client, args.detected_entities,
                              TRUE, NeverAsked, tie_up),
                permuted |-> analyze_entity_relationships(knowledge_triples,
                                 valid_relations, client, reordered,
                                 TRUE, NeverAsked, tie_up) ]
    /\ UNCHANGED <<db, auto_increment, client, model, response, pc, local, reply, args>>

NextPermutation ==
    \E reordered \in Shuffles(args.detected_entities), tie_up \in BOOLEAN :
        AnalyzePermutation(reordered, tie_up)

SpecPermutation == InitPermutation /\ [][NextPermutation]_vars

\* how often confidence c occurs among the potential relations of a result
TimesInferred(result, c) ==
    Cardinality({ i \in DOMAIN result.value.potential_relationships :
                    result.value.potential_relationships[i].confidence = c })

\* C23: with the rule fallback as oracle and a fixed graph, every
\* permutation of a batch yields the same aggregate relationship confidence,
\* the same leading scenario and the same multiset of potential-relation
\* confidences.
C23_OrderIndependent ==
    (ret.op = "analyze_permutation" /\ Len(args.detected_entities) >= 2)
        => /\ ret.permuted.value.relationship_confidence
                = ret.given.value.relationship_confidence
           /\ ret.permuted.value.validation_result.highest_confidence_scenario
                = ret.given.value.validation_result.highest_confidence_scenario
           /\ \A c \in 0..100 : TimesInferred(ret.permuted, c) = TimesInferred(ret.given, c)

--------------------------------------------------------------------------
(* Properties of the commit phase, continued *)

\* C27: every triple persisted by add_node_with_selected_triple has a
\* relation that is a member of valid_relations and a tail that is a node of
\* the graph as it was when the commit ran.
C27_CommittedTripleWellFormed ==
    (response.op = "commit" /\ IsOk(response))
        => LET persisted == knowledge_triples[Len(knowledge_triples)]
               before == SubSeq(knowledge_triples, 1, Len(knowledge_triples) - 1)
           IN /\ InList(persisted.relation, valid_relations)
              /\ CountTouching(before, persisted.tail_entity) > 0

--------------------------------------------------------------------------
(* main.py: the high-level node table and the handlers that use it *)
(* high_level_nodes is the node_name column of graph_high_level_nodes,   *)
(* which is UNIQUE; database_up says whether pymysql.connect succeeds.   *)

MeiJieKunChong == <<"mei", "jie", "kun", "chong">>
SongShuGenus == <<"song", "shu3">>

\* _CORE_HIGH_LEVEL_NODE_RECORDS, the node_name of each record
CORE_HIGH_LEVEL_NODE_NAMES ==
    { <<"song", "cai", "xian", "chong", "bing">>, <<"song", "cai", "xian", "chong">>, <<"song", "mo", "tian", "niu">>, <<"ji", "zhu">>, <<"mei", "jie", "kun", "chong">> }

\* _GENERIC_HIGH_LEVEL_NODE_NAMES
GENERIC_HIGH_LEVEL_NODE_NAMES ==
    { <<"sheng3", "fen">>, <<"cheng", "shi4">>, <<"zhong", "guo">>, <<"song", "shu3">>, <<"kuo", "ye", "shu4">>, <<"tian", "niu">>, <<"tian", "di2", "kun", "chong">>,
      <<"xian", "chong">>, <<"zhen", "jun">>, <<"suan", "fa">>, <<"yao2", "gan", "ji4", "shu">>, <<"fen1", "zi", "sheng", "wu", "xue2", "ji4", "shu">>, <<"nian", "fen">>,
      <<"bing", "hai">>, <<"nong", "yao", "yao", "ji4j">>, <<"yan", "jiu", "mo2", "xing", "yu3", "ruan", "jian4">>, <<"ji1", "yin">>, <<"dai", "xie", "tong", "lu">>,
      <<"wu", "li", "fang", "zhi">>, <<"hua4", "xue2", "fang", "zhi">>, <<"ying2", "lin", "fang", "zhi">>, <<"jian3", "yi4", "cuo", "shi1">>, <<"sheng", "li", "zhi3", "biao">>,
      <<"feng", "xian3", "ping", "gu">>, <<"zao", "qi1", "zhen3", "duan">>, <<"sen", "lin", "bao", "hu", "xue2">>, <<"sen", "lin", "kun", "chong", "xue2">>, <<"sen", "lin", "bing", "li", "xue2">>,
      <<"lin", "ye4", "zhi2", "wu", "jian3", "yi4", "xue2">>, <<"bo2", "shi4s", "xue2", "wei4", "lun", "wen2">>, <<"guo", "jia", "ke", "ji4", "jin", "bu", "er", "deng", "jiang">>, <<"sheng", "tai", "fu", "wu4">>,
      <<"duo", "chi3", "du", "jian", "ce">>, <<"neng", "liang", "dai", "xie">>, <<"zhen3", "duan">>, <<"tian", "di2">>,
      <<"zhong3", "qun", "dong", "tai", "mo2", "xing">>, <<"zhi2", "bei", "zhi3", "shu4n">>, <<"guang", "pu", "te", "zheng1">> }

\* get_default_high_level_nodes: the names of DEFAULT_HIGH_LEVEL_NODE_RECORDS
get_default_high_level_nodes ==
    CORE_HIGH_LEVEL_NODE_NAMES \cup GENERIC_HIGH_LEVEL_NODE_NAMES

\* load_high_level_nodes_from_db: the set it returns
load_high_level_nodes_from_db(table, database_up) ==
    IF database_up THEN table ELSE {}

\* save_high_level_nodes_to_db: the table it leaves and the set it returns.
\* The connection does not autocommit and conn.commit() is called only
\* after an INSERT, so when nothing is inserted the DELETE of replace_all is
\* rolled back as the connection closes.
save_high_level_nodes_to_db(table, nodes, replace_all, database_up) ==
    IF ~database_up THEN [ table |-> table, returned |-> nodes ]
    ELSE LET existing_nodes == IF replace_all THEN {} ELSE table
             new_nodes == nodes \ existing_nodes
         IN [ table |-> IF new_nodes # {} THEN existing_nodes \cup new_nodes ELSE table,
              returned |-> IF replace_all THEN nodes ELSE existing_nodes \cup nodes ]

\* init_default_high_level_nodes with the database up: the table it leaves
\* and the set it returns
init_default_high_level_nodes(table) ==
    IF Cardinality(table) = 0
    THEN [ table |-> get_default_high_level_nodes,
           returned |-> get_default_high_level_nodes ]
    ELSE [ table |-> table, returned |-> table ]

\* the names that are head or tail of a stored triple
NodesSet(rows) ==
    { rows[i].head_entity : i \in DOMAIN rows } \cup { rows[i].tail_entity : i \in DOMAIN rows }

\* GET /api/graph: the table of high-level nodes it leaves and its answer;
\* the nodes of the answer are built from a set, so they are in no order
get_graph(rows, table, database_up) ==
    IF ~database_up THEN [ table |-> table, answer |-> Raise(500, "internal_error") ]
    ELSE LET nodes_set == NodesSet(rows)
             loaded == load_high_level_nodes_from_db(table, database_up)
             seeded == init_default_high_level_nodes(table)
             high_level == IF loaded = {} THEN seeded.returned \cap nodes_set ELSE loaded
         IN [ table |-> IF loaded = {} THEN seeded.table ELSE table,
              answer |-> Return(
                  [ nodes |-> { [ name |-> node, id |-> node,
                                  category |-> IF node \in high_level THEN 1 ELSE 0 ] :
                                node \in nodes_set },
                    links |-> [ i \in DOMAIN rows |->
                                  [ source |-> rows[i].head_entity,
                                    target |-> rows[i].tail_entity,
                                    value |-> rows[i].relation, id |-> rows[i].id ] ] ]) ]

\* the rows that are left when every triple with head or tail name is deleted
WithoutNode(rows, name) ==
    LET keep(row) == row.head_entity # name /\ row.tail_entity # name
    IN SelectSeq(rows, keep)

\* faulty variant: the row of the high-level node table is left in place
delete_node_triples_only(rows, table, name, database_up) ==
    IF ~database_up
    THEN [ rows |-> rows, table |-> table, answer |-> Raise(500, "internal_error") ]
    ELSE [ rows |-> WithoutNode(rows, name), table |-> table,
           answer |-> Return([ name |-> name,
                               deleted_count |-> Len(rows) - Len(WithoutNode(rows, name)) ]) ]

\* DELETE /api/node/delete
delete_node(rows, table, name, database_up) ==
    IF ~database_up
    THEN [ rows |-> rows, table |-> table, answer |-> Raise(500, "internal_error") ]
    ELSE [ rows |-> WithoutNode(rows, name), table |-> table \ { name },
           answer |-> Return([ name |-> name,
                               deleted_count |-> Len(rows) - Len(WithoutNode(rows, name)) ]) ]

\* POST /api/graph/add-high-level-node
add_high_level_node(rows, table, resolved_name, database_up) ==
    LET node_name == Strip(resolved_name) IN
    IF node_name = <<>> THEN [ table |-> table, answer |-> Raise(400, "empty_name") ]
    ELSE IF ~database_up THEN [ table |-> table, answer |-> Raise(500, "internal_error") ]
    ELSE IF CountTouching(rows, node_name) = 0
    THEN [ table |-> table, answer |-> Raise(404, "not_in_graph") ]
    ELSE IF node_name \in table
    THEN [ table |-> table, answer |-> Raise(400, "already_high_level") ]
    ELSE [ table |-> table \cup { node_name },
           answer |-> Return([ node_name |-> node_name ]) ]

\* DELETE /api/graph/remove-high-level-node
remove_high_level_node(table, resolved_name, database_up) ==
    LET node_name == Strip(resolved_name) IN
    IF node_name = <<>> THEN [ table |-> table, answer |-> Raise(400, "empty_name") ]
    ELSE IF ~database_up THEN [ table |-> table, answer |-> Raise(500, "internal_error") ]
    ELSE IF node_name \notin table
    THEN [ table |-> table, answer |-> Raise(404, "not_high_level") ]
    ELSE [ table |-> table \ { node_name },
           answer |-> Return([ node_name |-> node_name ]) ]

--------------------------------------------------------------------------
(* The graph and its high-level nodes, one request at a time.  args holds *)
(* the names whose tag was taken away by remove_high_level_node and for   *)
(* which add_high_level_node was not called since.                        *)

\* what graph_high_level_nodes holds when the service starts: nothing (the
\* table as init_database creates it) or what earlier runs left
StoredTags == { {}, { SongMoTianNiu }, { SongMoTianNiu, MaWeiSong } }

TagRequests == { <<>>, Padded(SongMoTianNiu), MaWeiSong, MeiJieKunChong }
DeleteRequests == { SongMoTianNiu, MaWeiSong, ShiDiSong }

\* largest id that AUTO_INCREMENT hands out before commits stop
MaxTripleId == 6

Untagged(names) == [ op |-> "untagged", names |-> names ]

InitNodes ==
    /\ knowledge_triples = Graph1
    /\ auto_increment = Len(knowledge_triples) + 1
    /\ valid_relations = << ShuYu, ChuanBo, YiGan >>
    /\ high_level_nodes \in StoredTags
    /\ client = FALSE
    /\ model = FALSE
    /\ response = NoResponse
    /\ InitWorkers
    /\ args = Untagged({})
    /\ ret = NoCall

GetGraph(database_up) ==
    LET done == get_graph(knowledge_triples, high_level_nodes, database_up)
    IN /\ high_level_nodes' = done.table
       /\ response' = Answered("get_graph", <<>>, <<>>, done.answer)
       /\ UNCHANGED <<knowledge_triples, valid_relations, auto_increment, client,
                      model, pc, local, reply, args, ret>>

DeleteNode(name, database_up) ==
    LET done == delete_node(knowledge_triples, high_level_nodes, name, database_up)
    IN /\ knowledge_triples' = done.rows
       /\ high_level_nodes' = done.table
       /\ response' = Answered("delete_node", [ name |-> name ], <<>>, done.answer)
       /\ UNCHANGED <<valid_relations, auto_increment, client, model,
                      pc, local, reply, args, ret>>

AddHighLevelNode(resolved_name, database_up) ==
    LET done == add_high_level_node(knowledge_triples, high_level_nodes,
                                    resolved_name, database_up)
    IN /\ high_level_nodes' = done.table
       /\ response' = Answered("add_high_level_node", [ node_name |-> resolved_name ],
                               <<>>, done.answer)
       /\ args' = Untagged(args.names \ { Strip(resolved_name) })
       /\ UNCHANGED <<knowledge_triples, valid_relations, auto_increment, client,
                      model, pc, local, reply, ret>>

RemoveHighLevelNode(resolved_name, database_up) ==
    LET done == remove_high_level_node(high_level_nodes, resolved_name, database_up)
    IN /\ high_level_nodes' = done.table
       /\ response' = Answered("remove_high_level_node", [ node_name |-> resolved_name ],
                               <<>>, done.answer)
       /\ args' = IF IsOk(done.answer)
                  THEN Untagged(args.names \cup { Strip(resolved_name) })
                  ELSE args
       /\ UNCHANGED <<knowledge_triples, valid_relations, auto_increment, client,
                      model, pc, local, reply, ret>>

NextNodes ==
    \/ \E database_up \in BOOLEAN : GetGraph(database_up)
    \/ \E name \in DeleteRequests, database_up \in BOOLEAN : DeleteNode(name, database_up)
    \/ \E resolved_name \in TagRequests, database_up \in BOOLEAN :
           AddHighLevelNode(resolved_name, database_up)
    \/ \E resolved_name \in TagRequests, database_up \in BOOLEAN :
           RemoveHighLevelNode(resolved_name, database_up)
    \/ Discover(ShiDiSong, 1, W2VKeyError)
    \/ Expand([ entity_name |-> ShiDiSong, similar_entity |-> MaWeiSong ],
              [ k \in 1..Len(RelatedEntities(knowledge_triples, MaWeiSong)) |-> KimiRaises ])
    \/ /\ auto_increment <= MaxTripleId
       /\ Commit([ entity_name |-> ShiDiSong, similar_entity |-> MaWeiSong,
                   selected_triple |-> Triple(ShiDiSong, ShuYu, MaWeiSong) ])

SpecNodes == InitNodes /\ [][NextNodes]_vars

--------------------------------------------------------------------------
(* save_high_level_nodes_to_db and load_high_level_nodes_from_db called on *)
(* their own; ret holds the last call, a load also the save before it      *)

StoreNames == { SongMoTianNiu, MaWeiSong, SongShuGenus }

InitTagStore ==
    /\ knowledge_triples = Graph1
    /\ auto_increment = Len(knowledge_triples) + 1
    /\ valid_relations = << ShuYu, ChuanBo, YiGan >>
    /\ high_level_nodes \in SUBSET StoreNames
    /\ client = FALSE
    /\ model = FALSE
    /\ response = NoResponse
    /\ InitWorkers
    /\ args = NoCall
    /\ ret = NoCall

SaveHighLevelNodes(nodes, replace_all, database_up) ==
    LET done == save_high_level_nodes_to_db(high_level_nodes, nodes, replace_all,
                                            database_up)
    IN /\ high_level_nodes' = done.table
       /\ ret' = [ op |-> "save_high_level_nodes_to_db", high_level_nodes |-> nodes,
                   replace_all |-> replace_all, database_up |-> database_up,
                   prior |-> high_level_nodes, returned |-> done.returned ]
       /\ UNCHANGED <<knowledge_triples, valid_relations, auto_increment, client,
                      model, response, pc, local, reply, args>>

LoadHighLevelNodes(database_up) ==
    /\ ret' = [ op |-> "load_high_level_nodes_from_db", database_up |-> database_up,
                loaded |-> load_high_level_nodes_from_db(high_level_nodes, database_up),
                after |-> IF ret.op = "save_high_level_nodes_to_db" THEN ret ELSE NoCall ]
    /\ UNCHANGED <<db, auto_increment, client, model, response, pc, local, reply, args>>

NextStore ==
    \/ \E nodes \in SUBSET StoreNames, replace_all \in BOOLEAN, database_up \in BOOLEAN :
           SaveHighLevelNodes(nodes, replace_all, database_up)
    \/ \E database_up \in BOOLEAN : LoadHighLevelNodes(database_up)

SpecStore == InitTagStore /\ [][NextStore]_vars

--------------------------------------------------------------------------
(* Properties of the high-level node table *)

C28_SaveThenLoad ==
    ( /\ ret.op = "load_high_level_nodes_from_db"
      /\ ret.database_up
      /\ ret.after.op = "save_high_level_nodes_to_db"
      /\ ret.after.database_up )
    => ret.loaded = IF ret.after.replace_all
                    THEN ret.after.high_level_nodes
                    ELSE ret.after.prior \cup ret.after.high_level_nodes

\* C30: once remove_high_level_node(n) has succeeded, n stays untagged, and
\* get_graph reports category 0 for n, until add_high_level_node(n) is
\* called.
C30_RemovedStaysUntagged ==
    \A n \in args.names :
        /\ n \notin high_level_nodes
        /\ (response.op = "get_graph" /\ IsOk(response))
             => \A node \in response.body.nodes : node.name = n => node.category = 0

--------------------------------------------------------------------------
(* main.py: POST /api/entities/validate *)

\* the rows of the SELECTs of validation_type relationship_check
CheckedRelationships(rows, entities) ==
    LET found == query_existing_relationships(rows, entities)
    IN [ i \in DOMAIN found |->
           [ head_entity |-> found[i].head_entity, relation |-> found[i].relation,
             tail_entity |-> found[i].tail_entity ] ]

\* validate_entity_combinations of main.py; a KeyError on the analyzer's
\* result and the HTTPException of an unknown validation_type are both
\* caught by the outer except and answered with a 500
post_validate_entity_combinations(rows, table, self_client, request, database_up, script, tie_up) ==
    IF request.validation_type = "disease_scenario"
    THEN LET validation_result ==
                 analyze_entity_relationships(rows, table, self_client, request.entities,
                                              database_up, script, tie_up)
         IN IF validation_result.kind = "raise" THEN Raise(500, "internal_error")
            ELSE IF ~({ "relationship_confidence", "recommendations" }
                         \subseteq DOMAIN validation_result.value)
            THEN Raise(500, "internal_error")
            ELSE Return([ validation_type |-> request.validation_type,
                          entities |-> request.entities,
                          validation_result |-> validation_result.value,
                          is_valid |-> validation_result.value.relationship_confidence > 50,
                          confidence |-> validation_result.value.relationship_confidence,
                          recommendations |-> validation_result.value.recommendations ])
    ELSE IF request.validation_type = "relationship_check"
    THEN IF ~database_up THEN Raise(500, "internal_error")
         ELSE LET relationships == CheckedRelationships(rows, request.entities)
              IN Return([ validation_type |-> request.validation_type,
                          entities |-> request.entities,
                          existing_relationships |-> relationships,
                          relationship_count |-> Len(relationships),
                          is_valid |-> Len(relationships) > 0 ])
    ELSE Raise(500, "internal_error")

ValidationRequests ==
    [ op : { "validate_entity_combinations" },
      entities : Batches,
      validation_type : { "disease_scenario", "relationship_check", "other" },
      database_up : BOOLEAN ]

InitValidate ==
    /\ knowledge_triples \in { Graph1, Graph3 }
    /\ auto_increment = Len(knowledge_triples) + 1
    /\ valid_relations \in { <<>>, << ShuYu, ChuanBo, YiGan, <<"ji", "zhu">> >> }
    /\ high_level_nodes = {}
    /\ client \in BOOLEAN
    /\ model = FALSE
    /\ response = NoResponse
    /\ InitWorkers
    /\ args \in ValidationRequests
    /\ ret = NoCall

Validate(script, tie_up) ==
    /\ args.op = "validate_entity_combinations"
    /\ response' = Answered("validate_entity_combinations",
                            [ entities |-> args.entities,
                              validation_type |-> args.validation_type ],
                            script,
                            post_validate_entity_combinations(knowledge_triples,
                                valid_relations, client, args, args.database_up,
                                script, tie_up))
    /\ UNCHANGED <<db, auto_increment, client, model, pc, local, reply, args, ret>>

NextValidate ==
    \E script \in BackendScripts, tie_up \in BOOLEAN : Validate(script, tie_up)

SpecValidate == InitValidate /\ [][NextValidate]_vars

\* C29: validate_entity_combinations with validation_type disease_scenario
\* and fewer than 2 entities returns a structured response with confidence
\* 0.0 and is_valid false, not an error.
C29_InsufficientInputAnswered ==
    ( /\ response.op = "validate_entity_combinations"
      /\ response.request.validation_type = "disease_scenario"
      /\ Len(response.request.entities) < 2 )
    => /\ IsOk(response)
       /\ response.body.confidence = 0
       /\ response.body.is_valid = FALSE

====
